---- MODULE Spec2Model ----
(***************************************************************************)
(* Model of the Raydium SOL-USDC liquidity manager:                        *)
(*   - sendTransactionWithRetry (services/blockchain.ts), the bounded      *)
(*     retry submission protocol;                                          *)
(*   - LiquidityManager.initialize / managePositions (services/            *)
(*     liquidity.ts), the rebalance cycle;                                 *)
(*   - the RaydiumService helpers the cycle calls (services/raydium.ts);   *)
(*   - the allocation functions getOptimalAmounts and                      *)
(*     calculateOptimalAmounts called on their own (AllocSpec).            *)
(*                                                                         *)
(* Units.  JavaScript numbers are modelled in fixed point: SOL amounts in  *)
(* milli-SOL, USDC amounts and values in milli-USDC, prices in whole USDC  *)
(* per SOL, so that (milli-SOL * price) is a value in milli-USDC.  Square  *)
(* roots carry three decimals, the allocation weight is in thousandths.    *)
(*                                                                         *)
(* Control.  The program is single-flow: pc is the position of the one     *)
(* flow of control, each action is the code between two awaits on a        *)
(* network call.  Notification calls never throw (every method of          *)
(* NotificationService catches and logs), so they are folded into the      *)
(* step that makes them and recorded in events.                            *)
(*                                                                         *)
(* Environment.  main() sets up the module-level connection before any     *)
(* manager exists, so the `!connection` guard of sendTransactionWithRetry  *)
(* never fires.  sendAndConfirmTransaction either returns a signature,     *)
(* or throws with the transaction rejected, or throws on a confirmation    *)
(* timeout, in which case the transaction may or may not have taken        *)
(* effect on chain.  The chain refuses to close a position that is not     *)
(* open.  Position ids are never reused; an open can take effect only      *)
(* while an unused id is left.                                             *)
(***************************************************************************)
EXTENDS Integers, Sequences, FiniteSets, TLC

(***************************************************************************)
(* Bounds of the model.                                                    *)
(***************************************************************************)
MaxRetries == 3
MaxPositions == 2
MaxNotifications == 2
MaxCycles == 2
MaxInitCalls == 3

(***************************************************************************)
(* Program constants.                                                      *)
(***************************************************************************)
\* config.minSolBalance default, 0.05 SOL
minSolBalance == 50
\* minSolForPosition = 0.1 SOL
minSolForPosition == 100
\* minUsdcForPosition = 10 USDC
minUsdcForPosition == 10000
\* the `* 1000` of the backoff delay, in ms
baseDelay == 1000
\* totalValueUSDC * 0.98, in percent
deployPercent == 98

(***************************************************************************)
(* Input domains.                                                          *)
(***************************************************************************)
PositionIds == 1..MaxPositions
\* pool prices, USDC per SOL
Prices == {100, 120}
\* config.priceRangePercent values: the default
RangePercents == {5}
\* price ranges of positions found on chain at start
PositionRanges == {<<100, 110>>, <<105, 115>>}
\* wallet balances the query of line 145 can return (milli-SOL, milli-USDC):
\* base below the reserve, base one short of the minimum, quote one short
\* of the minimum, two sufficient pairs, and a pair held in about the
\* proportion the allocation asks for
Balances ==
  {[sol |-> 40, usdc |-> 50000], [sol |-> 149, usdc |-> 50000],
   [sol |-> 150, usdc |-> 9999], [sol |-> 150, usdc |-> 50000],
   [sol |-> 1000, usdc |-> 10000], [sol |-> 558, usdc |-> 49200]}

NoBalances == [sol |-> -1, usdc |-> -1]
NoPosition == [status |-> "unused", lowerPrice |-> 0, upperPrice |-> 0]
NoError == "none"

VARIABLES
  \* configuration (config/index.ts)
  maxRetryAttempts, priceRangePercent,
  \* on-chain state: pool price and the wallet's positions
  chainPrice, chainPositions,
  \* LiquidityManager / RaydiumService fields
  isInitialized, poolInfo,
  \* managePositions locals and control
  pc, op, currentPrice, lowerBound, upperBound, positions, idx,
  positionClosed, updatedBalances, cycleResult,
  \* sendTransactionWithRetry locals
  attempts, lastError, recentBlockhash, signature, thrown,
  \* observation of the calls made in the cycle (history); lostConfirm is
  \* the set of positions closed by an attempt whose confirmation timed out
  attemptLog, sleeps, fetchCount, landed, closeCalls, openCalls, events,
  evAtDecision, lostConfirm,
  \* the failures of the cycle, each with what was emitted for it (history)
  failures,
  \* the allocation functions called on their own: the arguments, the
  \* result of getOptimalAmounts, the locals of calculateOptimalAmounts
  allocArgs, optimalAmounts, calculatedAmounts,
  \* the sizing of lines 145-178 on its own: the price and balances read,
  \* the decision and the amounts
  sizeArgs, sizeResult,
  \* startup (config/index.ts): the numbers read from the environment, the
  \* state of the process, the result of getPriceRange once it runs
  env, startup, rangeResult,
  \* calculateTickIndexes on its own: the raw ticks and spacing, the result
  tickArgs, tickResult,
  \* isPositionInRange on its own: the position and price, the result
  inRangeArgs, inRangeResult,
  \* NotificationService on its own: the calls made and how each ended
  notifyLog,
  \* overlapping triggers: the locals of each managePositions invocation
  \* and the wallet they share
  cycles, wallet,
  \* LiquidityManager.initialize on its own: the calls made, with what each
  \* did on the network and how it ended
  initLog

configVars == <<maxRetryAttempts, priceRangePercent>>
chainVars == <<chainPrice, chainPositions>>
managerVars == <<isInitialized, poolInfo>>
cycleVars == <<currentPrice, lowerBound, upperBound, positions, idx,
               positionClosed, updatedBalances, cycleResult>>
retryVars == <<attempts, lastError, recentBlockhash, signature, thrown,
               attemptLog, sleeps, fetchCount, landed>>
histVars == <<closeCalls, openCalls, events, evAtDecision>>
allocVars == <<allocArgs, optimalAmounts, calculatedAmounts, sizeArgs,
               sizeResult>>
startupVars == <<env, startup, rangeResult>>
tickVars == <<tickArgs, tickResult>>
inRangeVars == <<inRangeArgs, inRangeResult>>
overlapVars == <<cycles, wallet>>
helperVars == <<startupVars, tickVars, inRangeVars, notifyLog, overlapVars,
                initLog>>
pureVars == <<allocVars, helperVars>>
vars == <<configVars, chainVars, managerVars, pc, op, cycleVars, retryVars,
          histVars, lostConfirm, failures, pureVars>>

(***************************************************************************)
(* Pure helpers.                                                           *)
(***************************************************************************)
Min(a, b) == IF a <= b THEN a ELSE b

RECURSIVE SqrtSearch(_, _, _)
SqrtSearch(x, lo, hi) ==
  IF lo >= hi THEN lo
  ELSE LET mid == (lo + hi + 1) \div 2
       IN IF mid * mid <= x THEN SqrtSearch(x, mid, hi)
                            ELSE SqrtSearch(x, lo, mid - 1)

\* Math.sqrt(price), three decimals
Sqrt(price) == SqrtSearch(price * 1000000, 0, 46340)

\* RaydiumService.getPriceRange
getPriceRange(price, percent) ==
  [lowerBound |-> (price * (100 - percent)) \div 100,
   upperBound |-> (price * (100 + percent)) \div 100]

\* the upper bound is excluded
isPositionInRange_m(position, price) ==
  price >= position.lowerPrice /\ price < position.upperPrice

\* RaydiumService.isPositionInRange
isPositionInRange(position, price) ==
  price >= position.lowerPrice /\ price <= position.upperPrice

\* RaydiumService.getOptimalAmounts
getOptimalAmounts(lowerPrice, upperPrice, price, totalValue) ==
  LET sqrtPriceLower == Sqrt(lowerPrice)
      sqrtPriceUpper == Sqrt(upperPrice)
      sqrtPriceCurrent == Sqrt(price)
  IN IF price <= lowerPrice
       THEN [solAmount |-> 0, usdcAmount |-> totalValue]
     ELSE IF price >= upperPrice
       THEN [solAmount |-> totalValue \div price, usdcAmount |-> 0]
     ELSE LET weight == ((sqrtPriceUpper - sqrtPriceCurrent) * 1000)
                          \div (sqrtPriceUpper - sqrtPriceLower)
          IN [solAmount |-> (totalValue * (1000 - weight)) \div (price * 1000),
              usdcAmount |-> (totalValue * weight) \div 1000]

\* a one-sided range test
ShouldClose_m(position, price) == price < position.lowerPrice

\* line 98 of managePositions: if (!isInRange)
ShouldClose(position, price) == ~isPositionInRange(position, price)

\* the exponent counted from 0
BackoffDelay_m(k) == (2 ^ (k - 1)) * baseDelay

\* delay = Math.pow(2, attempts) * 1000
BackoffDelay(k) == (2 ^ k) * baseDelay

\* RaydiumService.getPositions, successful: the wallet's open positions
RECURSIVE ListFrom(_, _)
ListFrom(cp, i) ==
  IF i > MaxPositions THEN <<>>
  ELSE IF cp[i].status = "open"
    THEN <<[positionId |-> i, lowerPrice |-> cp[i].lowerPrice,
            upperPrice |-> cp[i].upperPrice]>> \o ListFrom(cp, i + 1)
    ELSE ListFrom(cp, i + 1)

Event(type, ctx, id) == [type |-> type, ctx |-> ctx, id |-> id]

(***************************************************************************)
(* Initial state: the objects as constructed, nothing initialized, no      *)
(* call in flight.  The configuration and the on-chain state are inputs.   *)
(***************************************************************************)
OpenPositionStates ==
  {[status |-> "open", lowerPrice |-> r[1], upperPrice |-> r[2]] :
     r \in PositionRanges}

\* position ids are handed out in order of creation
InitialChainPositions ==
  {cp \in [PositionIds -> {NoPosition} \cup OpenPositionStates] :
     \A i, j \in PositionIds :
       (i < j /\ cp[i].status = "unused") => cp[j].status = "unused"}

NoThrow == [from |-> "none", error |-> NoError]

\* a failure with the emissions made for it: a logger.error entry, an error
\* notification
Failure(failed, logged, notified) ==
  [op |-> failed, log |-> logged, notification |-> notified]

\* the objects as constructed
Constructed ==
  /\ isInitialized = FALSE
  /\ poolInfo = 0
  /\ pc = "idle"
  /\ op = "none"
  /\ currentPrice = 0
  /\ lowerBound = 0
  /\ upperBound = 0
  /\ positions = <<>>
  /\ idx = 0
  /\ positionClosed = FALSE
  /\ updatedBalances = NoBalances
  /\ cycleResult = "none"
  /\ attempts = 0
  /\ lastError = NoError
  /\ recentBlockhash = 0
  /\ signature = 0
  /\ thrown = NoThrow
  /\ attemptLog = <<>>
  /\ sleeps = <<>>
  /\ fetchCount = 0
  /\ landed = 0
  /\ closeCalls = [i \in PositionIds |-> 0]
  /\ openCalls = <<>>
  /\ events = <<>>
  /\ evAtDecision = 0
  /\ lostConfirm = {}
  /\ failures = <<>>

NoArgs == [lowerPrice |-> 0, upperPrice |-> 0, currentPrice |-> 0,
           totalValue |-> 0]
NoCall == [state |-> "none", solAmount |-> 0, usdcAmount |-> 0]
NoSizeArgs == [price |-> 0, balances |-> NoBalances]

\* no allocation function is called on its own
NoAllocCall ==
  /\ allocArgs = NoArgs
  /\ optimalAmounts = NoCall
  /\ calculatedAmounts = NoCall
  /\ sizeArgs = NoSizeArgs
  /\ sizeResult = NoCall

\* the default configuration, loaded
DefaultEnv == [priceRangePercent |-> 5, minSolBalance |-> 50,
               checkIntervalMinutes |-> 5, maxRetryAttempts |-> 3]
NoRange == [state |-> "none", price |-> 0, lowerBound |-> 0,
            upperBound |-> 0]
NoTickArgs == [lowerRaw |-> 0, upperRaw |-> 0, tickSpacing |-> 1]
NoTicks == [state |-> "none", lowerTickIndex |-> 0, upperTickIndex |-> 0,
            firstLower |-> 0, firstUpper |-> 0]
NoInRangeArgs == [lowerPrice |-> 0, upperPrice |-> 0, price |-> 0]
NoInRange == [state |-> "none", inRange |-> FALSE, close |-> FALSE]

\* an invocation of managePositions that the trigger has not started yet
NoCycle == [pc |-> "waiting", positions |-> <<>>, idx |-> 0,
            balances |-> NoBalances]
\* one managePositions invocation at a time: no further invocation exists
NoOverlap ==
  /\ cycles = <<>>
  /\ wallet = NoBalances

\* no other function is called on its own, the process is running
NoHelperCall ==
  /\ env = DefaultEnv
  /\ startup = "running"
  /\ rangeResult = NoRange
  /\ tickArgs = NoTickArgs
  /\ tickResult = NoTicks
  /\ inRangeArgs = NoInRangeArgs
  /\ inRangeResult = NoInRange
  /\ notifyLog = <<>>
  /\ NoOverlap
  /\ initLog = <<>>

NoPureCall == NoAllocCall /\ NoHelperCall

Init ==
  /\ maxRetryAttempts \in 0..MaxRetries
  /\ priceRangePercent \in RangePercents
  /\ chainPrice \in Prices
  /\ chainPositions \in InitialChainPositions
  /\ Constructed
  /\ NoPureCall

(***************************************************************************)
(* The pool price moves on chain.  The program reads it only in            *)
(* fetchPoolInfo, which runs from the idle state, so moves at other        *)
(* moments are not observable and are not modelled.                        *)
(***************************************************************************)
PoolPriceMoves ==
  /\ pc = "idle"
  /\ chainPrice' \in Prices \ {chainPrice}
  /\ UNCHANGED <<pureVars,
                 configVars, chainPositions, managerVars, pc, op, cycleVars,
                 retryVars, histVars, lostConfirm, failures>>

(***************************************************************************)
(* LiquidityManager.initialize, called by main before the first cycle.     *)
(* RaydiumService.initialize -> fetchPoolInfo is its one network call;     *)
(* getCurrentPrice and getPriceRange then read the cached poolInfo.        *)
(***************************************************************************)
initialize ==
  /\ pc = "idle"
  /\ ~isInitialized
  /\ \E ok \in BOOLEAN :
       IF ok THEN /\ poolInfo' = chainPrice
                  /\ isInitialized' = TRUE
             ELSE UNCHANGED managerVars
  /\ UNCHANGED <<pureVars, configVars, chainVars, pc, op, cycleVars, retryVars,
                 histVars, lostConfirm, failures>>

(***************************************************************************)
(* managePositions, lines 65-83: initialize if needed (outside the try),   *)
(* read the cached price, compute the range, send the price update.        *)
(***************************************************************************)
ResetRetry ==
  /\ attempts' = 0
  /\ lastError' = NoError
  /\ recentBlockhash' = 0
  /\ signature' = 0
  /\ thrown' = NoThrow
  /\ attemptLog' = <<>>
  /\ sleeps' = <<>>
  /\ fetchCount' = 0
  /\ landed' = 0

BeginCycle(price) ==
  LET range == getPriceRange(price, priceRangePercent)
  IN /\ currentPrice' = price
     /\ lowerBound' = range.lowerBound
     /\ upperBound' = range.upperBound
     /\ events' = <<Event("priceUpdate", "cycle", 0)>>
     /\ closeCalls' = [i \in PositionIds |-> 0]
     /\ openCalls' = <<>>
     /\ evAtDecision' = 0
     /\ lostConfirm' = {}
     /\ failures' = <<>>
     /\ positions' = <<>>
     /\ idx' = 0
     /\ positionClosed' = FALSE
     /\ updatedBalances' = NoBalances
     /\ cycleResult' = "running"
     /\ pc' = "tokenBalances"

\* a cycle that reported an error is not followed by another one
managePositions_m ==
  /\ pc = "idle"
  /\ isInitialized
  /\ \A k \in 1..Len(events) : events[k].type # "error"
  /\ BeginCycle(poolInfo)
  /\ UNCHANGED <<pureVars, configVars, chainVars, managerVars, op, retryVars>>

managePositions ==
  /\ pc = "idle"
  /\ isInitialized
  /\ BeginCycle(poolInfo)
  /\ UNCHANGED <<pureVars, configVars, chainVars, managerVars, op, retryVars>>

managePositionsInitializes ==
  /\ pc = "idle"
  /\ ~isInitialized
  /\ poolInfo' = chainPrice
  /\ isInitialized' = TRUE
  /\ BeginCycle(chainPrice)
  /\ UNCHANGED <<pureVars, configVars, chainVars, op, retryVars>>

\* initialize throws inside managePositions, before its try block
managePositionsInitFails ==
  /\ pc = "idle"
  /\ ~isInitialized
  /\ cycleResult' = "propagated"
  /\ events' = <<>>
  /\ failures' = <<Failure("price", TRUE, TRUE)>>
  /\ UNCHANGED <<pureVars,
                 configVars, chainVars, managerVars, pc, op, currentPrice,
                 lowerBound, upperBound, positions, idx, positionClosed,
                 updatedBalances, retryVars, closeCalls, openCalls,
                 evAtDecision, lostConfirm>>

\* the operation awaited where the cycle is
Awaited ==
  CASE pc = "getPositions" -> "positions"
    [] pc = "thrown" -> op
    [] OTHER -> "balances"

\* the catch block at lines 220-226: it logs and notifies
CycleCaught ==
  /\ events' = Append(events, Event("error", "cycle", 0))
  /\ failures' = Append(failures, Failure(Awaited, TRUE, TRUE))
  /\ cycleResult' = "caught"
  /\ pc' = "idle"

\* line 86, the first getTokenBalances (the values are only logged)
TokenBalances ==
  /\ pc = "tokenBalances"
  /\ pc' = "getPositions"
  /\ UNCHANGED <<pureVars, configVars, chainVars, managerVars, op, cycleVars,
                 retryVars, histVars, lostConfirm, failures>>

TokenBalancesFails ==
  /\ pc = "tokenBalances"
  /\ CycleCaught
  /\ UNCHANGED <<pureVars, configVars, chainVars, managerVars, op, currentPrice,
                 lowerBound, upperBound, positions, idx, positionClosed,
                 updatedBalances, retryVars, closeCalls, openCalls,
                 evAtDecision, lostConfirm>>

\* a failed query is thrown to the catch block of the cycle
getPositions_m ==
  /\ pc = "getPositions"
  /\ \/ /\ positions' = ListFrom(chainPositions, 1)
        /\ idx' = 1
        /\ pc' = "closing"
        /\ UNCHANGED <<events, cycleResult, failures>>
     \/ /\ CycleCaught
        /\ UNCHANGED <<positions, idx>>
  /\ UNCHANGED <<pureVars, configVars, chainVars, managerVars, op, currentPrice,
                 lowerBound, upperBound, positionClosed, updatedBalances,
                 retryVars, closeCalls, openCalls, evAtDecision, lostConfirm>>

\* a failed query yields [] and nothing is logged
getPositions_silent ==
  /\ pc = "getPositions"
  /\ \/ /\ positions' = ListFrom(chainPositions, 1)
        /\ UNCHANGED failures
     \/ /\ positions' = <<>>
        /\ failures' = Append(failures, Failure("positions", FALSE, FALSE))
  /\ idx' = 1
  /\ pc' = "closing"
  /\ UNCHANGED <<pureVars, configVars, chainVars, managerVars, op, currentPrice,
                 lowerBound, upperBound, positionClosed, updatedBalances,
                 cycleResult, retryVars, histVars, lostConfirm>>

\* line 90, RaydiumService.getPositions: a failed query yields []
getPositions ==
  /\ pc = "getPositions"
  /\ \/ /\ positions' = ListFrom(chainPositions, 1)
        /\ UNCHANGED failures
     \/ /\ positions' = <<>>
        /\ failures' = Append(failures, Failure("positions", TRUE, FALSE))
  /\ idx' = 1
  /\ pc' = "closing"
  /\ UNCHANGED <<pureVars, configVars, chainVars, managerVars, op, currentPrice,
                 lowerBound, upperBound, positionClosed, updatedBalances,
                 cycleResult, retryVars, histVars, lostConfirm>>

(***************************************************************************)
(* The closing loop, lines 95-135.                                         *)
(***************************************************************************)
KeepPosition ==
  /\ pc = "closing"
  /\ idx <= Len(positions)
  /\ ~ShouldClose(positions[idx], poolInfo)
  /\ idx' = idx + 1
  /\ UNCHANGED <<pureVars,
                 configVars, chainVars, managerVars, pc, op, currentPrice,
                 lowerBound, upperBound, positions, positionClosed,
                 updatedBalances, cycleResult, retryVars, histVars,
                 lostConfirm, failures>>

\* the withdrawn notification is sent when the close is called
closePosition_m ==
  /\ pc = "closing"
  /\ idx <= Len(positions)
  /\ ShouldClose(positions[idx], poolInfo)
  /\ closeCalls' = [closeCalls EXCEPT ![positions[idx].positionId] = @ + 1]
  /\ events' = Append(events, Event("positionWithdrawn", "close",
                                    positions[idx].positionId))
  /\ pc' = "build"
  /\ op' = "close"
  /\ ResetRetry
  /\ UNCHANGED <<pureVars,
                 configVars, chainVars, managerVars, cycleVars, openCalls,
                 evAtDecision, lostConfirm, failures>>

\* line 103: closePosition(position.positionId) is called
closePosition ==
  /\ pc = "closing"
  /\ idx <= Len(positions)
  /\ ShouldClose(positions[idx], poolInfo)
  /\ closeCalls' = [closeCalls EXCEPT ![positions[idx].positionId] = @ + 1]
  /\ pc' = "build"
  /\ op' = "close"
  /\ ResetRetry
  /\ UNCHANGED <<pureVars,
                 configVars, chainVars, managerVars, cycleVars, openCalls,
                 events, evAtDecision, lostConfirm, failures>>

\* lines 106-124: the close returned a signature
CloseReturned ==
  /\ pc = "returned"
  /\ op = "close"
  /\ events' = events \o
       <<Event("positionWithdrawn", "close", positions[idx].positionId),
         Event("transaction", "withdraw", positions[idx].positionId)>>
  /\ positionClosed' = TRUE
  /\ idx' = idx + 1
  /\ pc' = "closing"
  /\ op' = "none"
  /\ ResetRetry
  /\ UNCHANGED <<pureVars,
                 configVars, chainVars, managerVars, currentPrice, lowerBound,
                 upperBound, positions, updatedBalances, cycleResult,
                 closeCalls, openCalls, evAtDecision, lostConfirm, failures>>

\* no try around the close: the failure ends the cycle
CloseThrown_m ==
  /\ pc = "thrown"
  /\ op = "close"
  /\ CycleCaught
  /\ op' = "none"
  /\ ResetRetry
  /\ UNCHANGED <<pureVars,
                 configVars, chainVars, managerVars, currentPrice, lowerBound,
                 upperBound, positions, idx, positionClosed, updatedBalances,
                 closeCalls, openCalls, evAtDecision, lostConfirm>>

\* lines 125-131: the close threw
CloseThrown ==
  /\ pc = "thrown"
  /\ op = "close"
  /\ events' = Append(events,
                      Event("error", "close", positions[idx].positionId))
  /\ failures' = Append(failures, Failure("close", TRUE, TRUE))
  /\ idx' = idx + 1
  /\ pc' = "closing"
  /\ op' = "none"
  /\ ResetRetry
  /\ UNCHANGED <<pureVars,
                 configVars, chainVars, managerVars, currentPrice, lowerBound,
                 upperBound, positions, positionClosed, updatedBalances,
                 cycleResult, closeCalls, openCalls, evAtDecision,
                 lostConfirm>>

\* the loop is left before its last position
ClosingDone_m ==
  /\ pc = "closing"
  /\ idx >= Len(positions)
  /\ pc' = IF positionClosed THEN "closedBalances" ELSE "updatedBalances"
  /\ UNCHANGED <<pureVars, configVars, chainVars, managerVars, op, cycleVars,
                 retryVars, histVars, lostConfirm, failures>>

\* the loop is over
ClosingDone ==
  /\ pc = "closing"
  /\ idx > Len(positions)
  /\ pc' = IF positionClosed THEN "closedBalances" ELSE "updatedBalances"
  /\ UNCHANGED <<pureVars, configVars, chainVars, managerVars, op, cycleVars,
                 retryVars, histVars, lostConfirm, failures>>

\* lines 138-142
ClosedBalances ==
  /\ pc = "closedBalances"
  /\ events' = Append(events, Event("balance", "close", 0))
  /\ pc' = "updatedBalances"
  /\ UNCHANGED <<pureVars, configVars, chainVars, managerVars, op, cycleVars,
                 retryVars, closeCalls, openCalls, evAtDecision, lostConfirm,
                 failures>>

ClosedBalancesFails ==
  /\ pc = "closedBalances"
  /\ CycleCaught
  /\ UNCHANGED <<pureVars, configVars, chainVars, managerVars, op, currentPrice,
                 lowerBound, upperBound, positions, idx, positionClosed,
                 updatedBalances, retryVars, closeCalls, openCalls,
                 evAtDecision, lostConfirm>>

(***************************************************************************)
(* closePosition / createPosition: build the instruction (a network call   *)
(* of the SDK), then sendTransactionWithRetry(transaction, signers,        *)
(* config.maxRetryAttempts).                                               *)
(***************************************************************************)
\* one iteration too many
LoopContinues_m(att, retries) == att <= retries

\* while (attempts < retries), line 179
LoopContinues(att, retries) == att < retries

\* if (attempts < retries), line 201
HasRetriesLeft(att, retries) == att < retries

\* the first error is kept
NextLastError_m(prev, err) == IF prev = NoError THEN err ELSE prev

\* lastError = error, line 198
NextLastError(prev, err) == err

\* the blockhash is fetched once and reused
TxBlockhash_m(prev, iter) == IF prev = 0 THEN iter ELSE prev

\* lines 182-184: the transaction gets the blockhash fetched in this
\* iteration; a blockhash is identified by the iteration that fetched it
TxBlockhash(prev, iter) == iter

\* throw new Error(`... ${lastError?.message}`), line 210
Exhausted(err) == [from |-> "retry", error |-> err]

BuildInstruction ==
  /\ pc = "build"
  /\ pc' = IF LoopContinues(0, maxRetryAttempts) THEN "fetch" ELSE "thrown"
  /\ thrown' = IF LoopContinues(0, maxRetryAttempts) THEN NoThrow
               ELSE Exhausted(NoError)
  /\ UNCHANGED <<pureVars,
                 configVars, chainVars, managerVars, op, cycleVars, attempts,
                 lastError, recentBlockhash, signature, attemptLog, sleeps,
                 fetchCount, landed, histVars, lostConfirm, failures>>

BuildInstructionFails ==
  /\ pc = "build"
  /\ pc' = "thrown"
  /\ thrown' = [from |-> "build", error |-> "BuildFailed"]
  /\ UNCHANGED <<pureVars,
                 configVars, chainVars, managerVars, op, cycleVars, attempts,
                 lastError, recentBlockhash, signature, attemptLog, sleeps,
                 fetchCount, landed, histVars, lostConfirm, failures>>

\* the failed attempt is not counted
Catch_m(entry) ==
  /\ attempts' = attempts
  /\ lastError' = NextLastError(lastError, entry.error)
  /\ attemptLog' = attemptLog
  /\ sleeps' = sleeps
  /\ pc' = "sleep"
  /\ thrown' = thrown

\* the catch block of the retry loop, lines 196-206, and the loop exit
Catch(entry) ==
  /\ attempts' = attempts + 1
  /\ lastError' = NextLastError(lastError, entry.error)
  /\ attemptLog' = Append(attemptLog, entry)
  /\ IF HasRetriesLeft(attempts', maxRetryAttempts)
       THEN /\ sleeps' = Append(sleeps, BackoffDelay(attempts'))
            /\ pc' = "sleep"
            /\ thrown' = thrown
       ELSE /\ sleeps' = sleeps
            /\ pc' = IF LoopContinues(attempts', maxRetryAttempts)
                       THEN "fetch" ELSE "thrown"
            /\ thrown' = IF LoopContinues(attempts', maxRetryAttempts)
                           THEN thrown ELSE Exhausted(lastError')

LogEntry(sent, outcome, err) ==
  [iter |-> attempts + 1, sent |-> sent,
   blockhash |-> IF sent THEN recentBlockhash ELSE 0,
   outcome |-> outcome, error |-> err]

\* connection.getLatestBlockhash(), line 182
FetchBlockhash ==
  /\ pc = "fetch"
  /\ fetchCount' = fetchCount + 1
  /\ recentBlockhash' = TxBlockhash(recentBlockhash, attempts + 1)
  /\ pc' = "send"
  /\ UNCHANGED <<pureVars,
                 configVars, chainVars, managerVars, op, cycleVars, attempts,
                 lastError, signature, thrown, attemptLog, sleeps, landed,
                 histVars, lostConfirm, failures>>

FetchBlockhashFails ==
  /\ pc = "fetch"
  /\ fetchCount' = fetchCount + 1
  /\ Catch(LogEntry(FALSE, "fetchFailed", "BlockhashUnavailable"))
  /\ UNCHANGED <<pureVars, configVars, chainVars, managerVars, op, cycleVars,
                 recentBlockhash, signature, landed, histVars, lostConfirm,
                 failures>>

\* the effect of the transaction on chain
UnusedIds == {i \in PositionIds : chainPositions[i].status = "unused"}

CanLand ==
  IF op = "close"
    THEN chainPositions[positions[idx].positionId].status = "open"
    ELSE UnusedIds # {}

Land ==
  /\ landed' = landed + 1
  /\ IF op = "close"
       THEN chainPositions' =
              [chainPositions EXCEPT ![positions[idx].positionId].status =
                                        "closed"]
       ELSE LET new == CHOOSE i \in UnusedIds : \A j \in UnusedIds : i <= j
            IN chainPositions' =
                 [chainPositions EXCEPT ![new] =
                    [status |-> "open", lowerPrice |-> lowerBound,
                     upperPrice |-> upperBound]]

\* the loop goes on after a confirmation
SendConfirmed_m ==
  /\ pc = "send"
  /\ CanLand
  /\ Land
  /\ attemptLog' = Append(attemptLog, LogEntry(TRUE, "confirmed", NoError))
  /\ signature' = attempts + 1
  /\ pc' = "fetch"
  /\ UNCHANGED <<pureVars,
                 configVars, chainPrice, managerVars, op, cycleVars, attempts,
                 lastError, recentBlockhash, thrown, sleeps, fetchCount,
                 histVars, lostConfirm, failures>>

\* sendAndConfirmTransaction returns the signature, lines 187-195
SendConfirmed ==
  /\ pc = "send"
  /\ CanLand
  /\ Land
  /\ attemptLog' = Append(attemptLog, LogEntry(TRUE, "confirmed", NoError))
  /\ signature' = attempts + 1
  /\ pc' = "returned"
  /\ UNCHANGED <<pureVars,
                 configVars, chainPrice, managerVars, op, cycleVars, attempts,
                 lastError, recentBlockhash, thrown, sleeps, fetchCount,
                 histVars, lostConfirm, failures>>

\* sendAndConfirmTransaction throws: the transaction was rejected
SendRejected ==
  /\ pc = "send"
  /\ Catch(LogEntry(TRUE, "rejected", "TransactionRejected"))
  /\ UNCHANGED <<pureVars, configVars, chainVars, managerVars, op, cycleVars,
                 recentBlockhash, signature, fetchCount, landed, histVars,
                 lostConfirm, failures>>

\* sendAndConfirmTransaction throws: no confirmation within the timeout;
\* the transaction did not take effect
SendTimedOut ==
  /\ pc = "send"
  /\ Catch(LogEntry(TRUE, "timeout", "ConfirmationTimeout"))
  /\ UNCHANGED <<pureVars, configVars, chainVars, managerVars, op, cycleVars,
                 recentBlockhash, signature, fetchCount, landed, histVars,
                 lostConfirm, failures>>

\* the landing is detected and the call returns
SendTimedOutLanded_m ==
  /\ pc = "send"
  /\ CanLand
  /\ Land
  /\ attemptLog' = Append(attemptLog,
                          LogEntry(TRUE, "timeout", "ConfirmationTimeout"))
  /\ signature' = attempts + 1
  /\ pc' = "returned"
  /\ lostConfirm' = IF op = "close"
                      THEN lostConfirm \cup {positions[idx].positionId}
                      ELSE lostConfirm
  /\ UNCHANGED <<pureVars, configVars, chainPrice, managerVars, op, cycleVars,
                 attempts, lastError, recentBlockhash, thrown, sleeps,
                 fetchCount, histVars, failures>>

\* sendAndConfirmTransaction throws: no confirmation within the timeout;
\* the transaction took effect on chain all the same
SendTimedOutLanded ==
  /\ pc = "send"
  /\ CanLand
  /\ Land
  /\ Catch(LogEntry(TRUE, "timeout", "ConfirmationTimeout"))
  /\ lostConfirm' = IF op = "close"
                      THEN lostConfirm \cup {positions[idx].positionId}
                      ELSE lostConfirm
  /\ UNCHANGED <<pureVars, configVars, chainPrice, managerVars, op, cycleVars,
                 recentBlockhash, signature, fetchCount, histVars, failures>>

\* the setTimeout of line 204 fires
BackoffSleep ==
  /\ pc = "sleep"
  /\ pc' = IF LoopContinues(attempts, maxRetryAttempts)
             THEN "fetch" ELSE "thrown"
  /\ thrown' = IF LoopContinues(attempts, maxRetryAttempts)
                 THEN thrown ELSE Exhausted(lastError)
  /\ UNCHANGED <<pureVars,
                 configVars, chainVars, managerVars, op, cycleVars, attempts,
                 lastError, recentBlockhash, signature, attemptLog, sleeps,
                 fetchCount, landed, histVars, lostConfirm, failures>>

(***************************************************************************)
(* Reallocation and opening, lines 144-217.                                *)
(***************************************************************************)
\* line 152
AvailableSol(balances) == balances.sol - minSolBalance

\* either asset suffices
CanOpen_m(availableSol, usdc) ==
  availableSol >= minSolForPosition \/ usdc >= minUsdcForPosition

\* the condition of line 154
CanOpen(availableSol, usdc) ==
  availableSol >= minSolForPosition /\ usdc >= minUsdcForPosition

\* line 158
TotalValueUSDC(availableSol, price, usdc) == availableSol * price + usdc

\* the amounts are passed unclamped
FinalAmounts_m(optimal, availableSol, usdc) ==
  [solAmount |-> optimal.solAmount, usdcAmount |-> optimal.usdcAmount]

\* lines 168-169
FinalAmounts(optimal, availableSol, usdc) ==
  [solAmount |-> Min(optimal.solAmount, availableSol),
   usdcAmount |-> Min(optimal.usdcAmount, usdc)]

\* the whole value is deployed
DeployValue_m(totalValueUSDC) == totalValueUSDC

\* line 164: totalValueUSDC * 0.98
DeployValue(totalValueUSDC) == (totalValueUSDC * deployPercent) \div 100

\* lines 152-178: the arguments of the createPosition call, for the price
\* and range read at lines 74-75, the pool price getOptimalAmounts reads
\* and the balances of line 145
SizePosition(price, poolPrice, lower, upper, balances) ==
  LET availableSol == AvailableSol(balances)
      totalValueUSDC == TotalValueUSDC(availableSol, price, balances.usdc)
      optimal == getOptimalAmounts(lower, upper, poolPrice,
                                   DeployValue(totalValueUSDC))
      final == FinalAmounts(optimal, availableSol, balances.usdc)
  IN [solAmount |-> final.solAmount, usdcAmount |-> final.usdcAmount,
      lowerPrice |-> lower, upperPrice |-> upper]

\* lines 158-178 in the cycle
OpenArguments(balances) ==
  SizePosition(currentPrice, poolInfo, lowerBound, upperBound, balances)

\* line 145 succeeds and the funds suffice: createPosition is called
createPosition ==
  /\ pc = "updatedBalances"
  /\ \E b \in Balances :
       /\ CanOpen(AvailableSol(b), b.usdc)
       /\ updatedBalances' = b
       /\ openCalls' = Append(openCalls, OpenArguments(b))
  /\ evAtDecision' = Len(events)
  /\ pc' = "build"
  /\ op' = "open"
  /\ ResetRetry
  /\ UNCHANGED <<pureVars,
                 configVars, chainVars, managerVars, currentPrice, lowerBound,
                 upperBound, positions, idx, positionClosed, cycleResult,
                 closeCalls, events, lostConfirm, failures>>

\* no position is opened while a listed position was kept
InsufficientFunds_m ==
  /\ pc = "updatedBalances"
  /\ \E b \in Balances :
       /\ \/ ~CanOpen(AvailableSol(b), b.usdc)
          \/ positions # <<>> /\ ~positionClosed
       /\ updatedBalances' = b
  /\ evAtDecision' = Len(events)
  /\ cycleResult' = "completed"
  /\ pc' = "idle"
  /\ UNCHANGED <<pureVars, configVars, chainVars, managerVars, op, currentPrice,
                 lowerBound, upperBound, positions, idx, positionClosed,
                 retryVars, closeCalls, openCalls, events, lostConfirm,
                 failures>>

\* line 145 succeeds and the funds do not suffice, lines 213-219
InsufficientFunds ==
  /\ pc = "updatedBalances"
  /\ \E b \in Balances :
       /\ ~CanOpen(AvailableSol(b), b.usdc)
       /\ updatedBalances' = b
  /\ evAtDecision' = Len(events)
  /\ cycleResult' = "completed"
  /\ pc' = "idle"
  /\ UNCHANGED <<pureVars, configVars, chainVars, managerVars, op, currentPrice,
                 lowerBound, upperBound, positions, idx, positionClosed,
                 retryVars, closeCalls, openCalls, events, lostConfirm,
                 failures>>

UpdatedBalancesFails ==
  /\ pc = "updatedBalances"
  /\ CycleCaught
  /\ UNCHANGED <<pureVars, configVars, chainVars, managerVars, op, currentPrice,
                 lowerBound, upperBound, positions, idx, positionClosed,
                 updatedBalances, retryVars, closeCalls, openCalls,
                 evAtDecision, lostConfirm>>

\* lines 180-199: createPosition returned a signature
OpenReturned ==
  /\ pc = "returned"
  /\ op = "open"
  /\ events' = events \o <<Event("positionCreated", "open", 0),
                           Event("transaction", "deposit", 0)>>
  /\ pc' = "newBalances"
  /\ op' = "none"
  /\ ResetRetry
  /\ UNCHANGED <<pureVars,
                 configVars, chainVars, managerVars, cycleVars, closeCalls,
                 openCalls, evAtDecision, lostConfirm, failures>>

\* lines 202-205
NewBalances ==
  /\ pc = "newBalances"
  /\ events' = Append(events, Event("balance", "open", 0))
  /\ cycleResult' = "completed"
  /\ pc' = "idle"
  /\ UNCHANGED <<pureVars, configVars, chainVars, managerVars, op, currentPrice,
                 lowerBound, upperBound, positions, idx, positionClosed,
                 updatedBalances, retryVars, closeCalls, openCalls,
                 evAtDecision, lostConfirm, failures>>

\* line 202 throws inside the try of line 171: the catch of line 206 runs
NewBalancesFails ==
  /\ pc = "newBalances"
  /\ events' = Append(events, Event("error", "open", 0))
  /\ failures' = Append(failures, Failure("balances", TRUE, TRUE))
  /\ cycleResult' = "completed"
  /\ pc' = "idle"
  /\ UNCHANGED <<pureVars, configVars, chainVars, managerVars, op, currentPrice,
                 lowerBound, upperBound, positions, idx, positionClosed,
                 updatedBalances, retryVars, closeCalls, openCalls,
                 evAtDecision, lostConfirm>>

\* lines 206-212: createPosition threw
OpenThrown ==
  /\ pc = "thrown"
  /\ op = "open"
  /\ events' = Append(events, Event("error", "open", 0))
  /\ failures' = Append(failures, Failure("open", TRUE, TRUE))
  /\ cycleResult' = "completed"
  /\ pc' = "idle"
  /\ op' = "none"
  /\ ResetRetry
  /\ UNCHANGED <<pureVars,
                 configVars, chainVars, managerVars, currentPrice, lowerBound,
                 upperBound, positions, idx, positionClosed, updatedBalances,
                 closeCalls, openCalls, evAtDecision, lostConfirm>>

Next ==
  \/ PoolPriceMoves
  \/ initialize
  \/ managePositions
  \/ managePositionsInitializes
  \/ managePositionsInitFails
  \/ TokenBalances
  \/ TokenBalancesFails
  \/ getPositions
  \/ KeepPosition
  \/ closePosition
  \/ CloseReturned
  \/ CloseThrown
  \/ ClosingDone
  \/ ClosedBalances
  \/ ClosedBalancesFails
  \/ BuildInstruction
  \/ BuildInstructionFails
  \/ FetchBlockhash
  \/ FetchBlockhashFails
  \/ SendConfirmed
  \/ SendRejected
  \/ SendTimedOut
  \/ SendTimedOutLanded
  \/ BackoffSleep
  \/ createPosition
  \/ InsufficientFunds
  \/ UpdatedBalancesFails
  \/ OpenReturned
  \/ NewBalances
  \/ NewBalancesFails
  \/ OpenThrown

Spec == Init /\ [][Next]_vars

(***************************************************************************)
(* The allocation functions on their own.  RaydiumService.getOptimalAmounts *)
(* is the operator above; calculateOptimalAmounts is the exported helper   *)
(* function.  Amounts are in the units of the cycle: milli-SOL,            *)
(* milli-USDC, whole USDC per SOL.                                         *)
(***************************************************************************)
\* CONSTANTS.POSITION.MIN_SOL_AMOUNT, 0.01 SOL
MIN_SOL_AMOUNT == 10
\* CONSTANTS.POSITION.MIN_USDC_AMOUNT, 5 USDC
MIN_USDC_AMOUNT == 5000

\* calculateOptimalAmounts, lines 210-230: the amounts before the thresholds
RangeAllocation(lowerPrice, upperPrice, price, totalValueUsdc) ==
  LET sqrtPrice == Sqrt(price)
      sqrtLowerPrice == Sqrt(lowerPrice)
      sqrtUpperPrice == Sqrt(upperPrice)
  IN IF price <= lowerPrice
       THEN [solAmount |-> 0, usdcAmount |-> totalValueUsdc]
     ELSE IF price >= upperPrice
       THEN [solAmount |-> totalValueUsdc \div price, usdcAmount |-> 0]
     ELSE LET positionInRange == ((sqrtPrice - sqrtLowerPrice) * 1000)
                                   \div (sqrtUpperPrice - sqrtLowerPrice)
          IN [solAmount |-> (totalValueUsdc * (1000 - positionInRange))
                              \div (price * 1000),
              usdcAmount |-> (totalValueUsdc * positionInRange) \div 1000]

\* the base amount is left in place when the value moves to quote
ApplyMinimumThresholds_m(amounts, price, totalValueUsdc) ==
  LET first == IF amounts.solAmount < MIN_SOL_AMOUNT
                 THEN [solAmount |-> amounts.solAmount,
                       usdcAmount |-> totalValueUsdc]
                 ELSE amounts
  IN IF first.usdcAmount < MIN_USDC_AMOUNT
       THEN [solAmount |-> totalValueUsdc \div price, usdcAmount |-> 0]
       ELSE first

\* calculateOptimalAmounts, lines 233-241: the two threshold tests in order
ApplyMinimumThresholds(amounts, price, totalValueUsdc) ==
  LET first == IF amounts.solAmount < MIN_SOL_AMOUNT
                 THEN [solAmount |-> 0, usdcAmount |-> totalValueUsdc]
                 ELSE amounts
  IN IF first.usdcAmount < MIN_USDC_AMOUNT
       THEN [solAmount |-> totalValueUsdc \div price, usdcAmount |-> 0]
       ELSE first

\* calculateOptimalAmounts
calculateOptimalAmounts(lowerPrice, upperPrice, price, totalValueUsdc) ==
  ApplyMinimumThresholds(
    RangeAllocation(lowerPrice, upperPrice, price, totalValueUsdc),
    price, totalValueUsdc)

\* arguments: valid ranges, an empty and an inverted range
AllocRanges == {<<90, 110>>, <<95, 105>>, <<400, 500>>, <<100, 100>>,
                <<110, 90>>}
AllocPrices == {80, 90, 100, 104, 109, 110, 120, 600}
\* 0, 0.5, 4, 5, 10 and 1000 USDC
AllocValues == {0, 500, 4000, 5000, 10000, 1000000}

\* the sizing of managePositions on its own, at prices where the quote leg
\* is small.  Here prices are in tenths of USDC per SOL and USDC amounts
\* in tenths of milli-USDC (milli-SOL times price); UsdcScale converts the
\* USDC thresholds of the code.
UsdcScale == 10
SizePrices == {20, 30, 1000}
SizeBalances ==
  {[sol |-> 200, usdc |-> 100000], [sol |-> 200, usdc |-> 99999],
   [sol |-> 149, usdc |-> 100000], [sol |-> 1050, usdc |-> 500000]}

Returned(state, amounts) ==
  [state |-> state, solAmount |-> amounts.solAmount,
   usdcAmount |-> amounts.usdcAmount]

AllocInit ==
  /\ maxRetryAttempts = MaxRetries
  /\ priceRangePercent \in RangePercents
  /\ chainPrice = 100
  /\ chainPositions = [i \in PositionIds |-> NoPosition]
  /\ Constructed
  /\ \E r \in AllocRanges, p \in AllocPrices, v \in AllocValues :
       allocArgs = [lowerPrice |-> r[1], upperPrice |-> r[2],
                    currentPrice |-> p, totalValue |-> v]
  /\ optimalAmounts = NoCall
  /\ calculatedAmounts = NoCall
  /\ \E p \in SizePrices, b \in SizeBalances :
       sizeArgs = [price |-> p, balances |-> b]
  /\ sizeResult = NoCall
  /\ NoHelperCall

mainVars == <<configVars, chainVars, managerVars, pc, op, cycleVars,
              retryVars, histVars, lostConfirm, failures>>

\* RaydiumService.getOptimalAmounts(lowerPrice, upperPrice, totalValue)
\* with the pool at allocArgs.currentPrice
GetOptimalAmountsReturns ==
  /\ optimalAmounts.state = "none"
  /\ optimalAmounts' =
       Returned("returned",
                getOptimalAmounts(allocArgs.lowerPrice, allocArgs.upperPrice,
                                  allocArgs.currentPrice,
                                  allocArgs.totalValue))
  /\ UNCHANGED <<mainVars, helperVars, allocArgs, calculatedAmounts, sizeArgs,
                 sizeResult>>

\* calculateOptimalAmounts up to line 230
CalculateAllocates ==
  /\ calculatedAmounts.state = "none"
  /\ calculatedAmounts' =
       Returned("allocated",
                RangeAllocation(allocArgs.lowerPrice, allocArgs.upperPrice,
                                allocArgs.currentPrice, allocArgs.totalValue))
  /\ UNCHANGED <<mainVars, helperVars, allocArgs, optimalAmounts, sizeArgs,
                 sizeResult>>

\* calculateOptimalAmounts, lines 233-252
CalculateReturns ==
  /\ calculatedAmounts.state = "allocated"
  /\ calculatedAmounts' =
       Returned("returned",
                ApplyMinimumThresholds(calculatedAmounts,
                                       allocArgs.currentPrice,
                                       allocArgs.totalValue))
  /\ UNCHANGED <<mainVars, helperVars, allocArgs, optimalAmounts, sizeArgs,
                 sizeResult>>

\* managePositions, lines 145-178, with the price of line 74 and the range
\* of line 75 both from the cached pool state
SizingOpens ==
  /\ sizeResult.state = "none"
  /\ CanOpen(AvailableSol(sizeArgs.balances),
             sizeArgs.balances.usdc \div UsdcScale)
  /\ LET range == getPriceRange(sizeArgs.price, priceRangePercent)
     IN sizeResult' =
          Returned("opened",
                   SizePosition(sizeArgs.price, sizeArgs.price,
                                range.lowerBound, range.upperBound,
                                sizeArgs.balances))
  /\ UNCHANGED <<mainVars, helperVars, allocArgs, optimalAmounts,
                 calculatedAmounts, sizeArgs>>

\* lines 213-219
SizingSkips ==
  /\ sizeResult.state = "none"
  /\ ~CanOpen(AvailableSol(sizeArgs.balances),
              sizeArgs.balances.usdc \div UsdcScale)
  /\ sizeResult' = [NoCall EXCEPT !.state = "skipped"]
  /\ UNCHANGED <<mainVars, helperVars, allocArgs, optimalAmounts,
                 calculatedAmounts, sizeArgs>>

AllocNext ==
  \/ GetOptimalAmountsReturns
  \/ CalculateAllocates
  \/ CalculateReturns
  \/ SizingOpens
  \/ SizingSkips

AllocSpec == AllocInit /\ [][AllocNext]_vars

(***************************************************************************)
(* Startup (config/index.ts, lines 54-80): the numbers are read from the   *)
(* environment, three of them are validated and the process exits on the   *)
(* first invalid one.  A running process computes price ranges with the    *)
(* configured width.  minSolBalance is in milli-SOL.                       *)
(***************************************************************************)
\* the idle state of the manager under the default configuration
MainIdle ==
  /\ maxRetryAttempts = MaxRetries
  /\ priceRangePercent \in RangePercents
  /\ chainPrice = 100
  /\ chainPositions = [i \in PositionIds |-> NoPosition]
  /\ Constructed

EnvWidths == {-5, 0, 1, 5, 100, 150}
EnvMinSol == {9, 10, 50}
EnvIntervals == {0, 1, 5}
EnvRetries == {-1, 0, 1, 3}

\* a width of 0 passes
PriceRangePercentInvalid_m(w) == w < 0

\* line 67
PriceRangePercentInvalid(w) == w <= 0

\* line 72: minSolBalance < 0.01
MinSolBalanceInvalid(b) == b < 10

\* line 77
CheckIntervalInvalid(m) == m < 1

\* lines 66-80; maxRetryAttempts is not looked at
ConfigInvalid(e) ==
  \/ PriceRangePercentInvalid(e.priceRangePercent)
  \/ MinSolBalanceInvalid(e.minSolBalance)
  \/ CheckIntervalInvalid(e.checkIntervalMinutes)

StartupInit ==
  /\ MainIdle
  /\ NoAllocCall
  /\ env \in [priceRangePercent : EnvWidths, minSolBalance : EnvMinSol,
               checkIntervalMinutes : EnvIntervals,
               maxRetryAttempts : EnvRetries]
  /\ startup = "loading"
  /\ rangeResult = NoRange
  /\ tickArgs = NoTickArgs
  /\ tickResult = NoTicks
  /\ inRangeArgs = NoInRangeArgs
  /\ inRangeResult = NoInRange
  /\ notifyLog = <<>>
  /\ NoOverlap
  /\ initLog = <<>>

\* the module is loaded: process.exit(1) or the exported config
LoadConfig ==
  /\ startup = "loading"
  /\ startup' = IF ConfigInvalid(env) THEN "exited" ELSE "running"
  /\ UNCHANGED <<mainVars, allocVars, env, rangeResult, tickVars,
                 inRangeVars, notifyLog, overlapVars, initLog>>

\* RaydiumService.getPriceRange in a running process, with the pool at
\* price
getPriceRangeReturns ==
  /\ startup = "running"
  /\ rangeResult.state = "none"
  /\ \E price \in Prices :
       LET range == getPriceRange(price, env.priceRangePercent)
       IN rangeResult' = [state |-> "returned", price |-> price,
                          lowerBound |-> range.lowerBound,
                          upperBound |-> range.upperBound]
  /\ UNCHANGED <<mainVars, allocVars, env, startup, tickVars, inRangeVars,
                 notifyLog, overlapVars, initLog>>

StartupNext ==
  \/ LoadConfig
  \/ getPriceRangeReturns

StartupSpec == StartupInit /\ [][StartupNext]_vars

(***************************************************************************)
(* calculateTickIndexes on its own (raydium.ts 164-200).  The raw ticks    *)
(* are the values AmmV3.priceToTickIndex returns for lowerPrice and        *)
(* upperPrice; the conversion is monotone, so lowerRaw <= upperRaw.        *)
(* createPosition passes the result to the open-position instruction as    *)
(* tickLower and tickUpper (lines 224, 251-252).                           *)
(***************************************************************************)
RawTicks == -21..21
TickSpacings == {1, 10, 60}

\* the quotient is truncated toward zero
FloorToSpacing_m(t, s) ==
  IF t >= 0 THEN (t \div s) * s ELSE -(((-t) \div s) * s)

\* Math.floor(lowerTickIndex / tickSpacing) * tickSpacing, line 196
FloorToSpacing(t, s) == (t \div s) * s

\* Math.ceil(upperTickIndex / tickSpacing) * tickSpacing, line 197
CeilToSpacing(t, s) == (-((-t) \div s)) * s

TickInit ==
  /\ MainIdle
  /\ NoAllocCall
  /\ env = DefaultEnv
  /\ startup = "running"
  /\ rangeResult = NoRange
  /\ tickArgs \in {a \in [lowerRaw : RawTicks, upperRaw : RawTicks,
                          tickSpacing : TickSpacings] :
                     a.lowerRaw <= a.upperRaw}
  /\ tickResult = NoTicks
  /\ inRangeArgs = NoInRangeArgs
  /\ inRangeResult = NoInRange
  /\ notifyLog = <<>>
  /\ NoOverlap
  /\ initLog = <<>>

\* lines 196-199 on the raw ticks
calculateTickIndexes ==
  /\ tickResult.state = "none"
  /\ LET lower == FloorToSpacing(tickArgs.lowerRaw, tickArgs.tickSpacing)
         upper == CeilToSpacing(tickArgs.upperRaw, tickArgs.tickSpacing)
     IN tickResult' = [state |-> "aligned", lowerTickIndex |-> lower,
                       upperTickIndex |-> upper, firstLower |-> lower,
                       firstUpper |-> upper]
  /\ UNCHANGED <<mainVars, allocVars, startupVars, tickArgs, inRangeVars,
                 notifyLog, overlapVars, initLog>>

\* lines 196-197 applied to ticks they have produced
AlignAgain ==
  /\ tickResult.state = "aligned"
  /\ tickResult' =
       [tickResult EXCEPT
          !.state = "realigned",
          !.lowerTickIndex =
             FloorToSpacing(tickResult.lowerTickIndex, tickArgs.tickSpacing),
          !.upperTickIndex =
             CeilToSpacing(tickResult.upperTickIndex, tickArgs.tickSpacing)]
  /\ UNCHANGED <<mainVars, allocVars, startupVars, tickArgs, inRangeVars,
                 notifyLog, overlapVars, initLog>>

TickNext ==
  \/ calculateTickIndexes
  \/ AlignAgain

TickSpec == TickInit /\ [][TickNext]_vars

(***************************************************************************)
(* isPositionInRange on its own (raydium.ts 322-327) and the decision of   *)
(* managePositions that uses it (liquidity.ts 97-98): any position, any    *)
(* price around its bounds.                                                *)
(***************************************************************************)
InRangePositions == PositionRanges \cup {<<100, 100>>}
InRangePrices == 95..120

InRangeInit ==
  /\ MainIdle
  /\ NoAllocCall
  /\ env = DefaultEnv
  /\ startup = "running"
  /\ rangeResult = NoRange
  /\ tickArgs = NoTickArgs
  /\ tickResult = NoTicks
  /\ \E r \in InRangePositions, price \in InRangePrices :
       inRangeArgs = [lowerPrice |-> r[1], upperPrice |-> r[2],
                      price |-> price]
  /\ inRangeResult = NoInRange
  /\ notifyLog = <<>>
  /\ NoOverlap
  /\ initLog = <<>>

\* line 97: const isInRange = await isPositionInRange(position)
isPositionInRangeReturns ==
  /\ inRangeResult.state = "none"
  /\ inRangeResult' =
       [state |-> "returned",
        inRange |-> isPositionInRange(inRangeArgs, inRangeArgs.price),
        close |-> FALSE]
  /\ UNCHANGED <<mainVars, allocVars, startupVars, tickVars, inRangeArgs,
                 notifyLog, overlapVars, initLog>>

\* line 98: if (!isInRange) the position is closed
CloseDecided ==
  /\ inRangeResult.state = "returned"
  /\ inRangeResult' =
       [inRangeResult EXCEPT
          !.state = "decided",
          !.close = ShouldClose(inRangeArgs, inRangeArgs.price)]
  /\ UNCHANGED <<mainVars, allocVars, startupVars, tickVars, inRangeArgs,
                 notifyLog, overlapVars, initLog>>

InRangeNext ==
  \/ isPositionInRangeReturns
  \/ CloseDecided

InRangeSpec == InRangeInit /\ [][InRangeNext]_vars

(***************************************************************************)
(* NotificationService on its own (notification.ts 82-440).  Each send     *)
(* method builds its message and posts it to the webhook inside one try    *)
(* block whose catch block only logs.  The caller makes its next call      *)
(* when the method has returned; a raised error would end the caller.      *)
(***************************************************************************)
\* the message is posted, axios.post rejects, or building the message
\* throws (a field of the argument is undefined)
SinkOutcomes == {"delivered", "postFailed", "formatFailed"}

\* a failed post is thrown again
Raises_m(outcome) == outcome = "postFailed"

\* catch (error) { logger.error(...) }: nothing leaves the method
Raises(outcome) == FALSE

CallerRunning == \A i \in 1..Len(notifyLog) : ~notifyLog[i].raised

NotifyInit ==
  /\ MainIdle
  /\ NoAllocCall
  /\ env = DefaultEnv
  /\ startup = "running"
  /\ rangeResult = NoRange
  /\ tickArgs = NoTickArgs
  /\ tickResult = NoTicks
  /\ inRangeArgs = NoInRangeArgs
  /\ inRangeResult = NoInRange
  /\ notifyLog = <<>>
  /\ NoOverlap
  /\ initLog = <<>>

\* the caller is at a call of a notification method
CanNotify == CallerRunning /\ Len(notifyLog) < MaxNotifications

\* the log after the method has run: try { post } catch { log }
Notified(method) ==
  {Append(notifyLog, [method |-> method, outcome |-> outcome,
                      raised |-> Raises(outcome)]) :
     outcome \in SinkOutcomes}

\* lines 82-120
sendStartupNotification ==
  /\ CanNotify
  /\ notifyLog' \in Notified("startup")
  /\ UNCHANGED <<mainVars, allocVars, startupVars, tickVars, inRangeVars,
                 overlapVars, initLog>>

\* lines 126-164
sendPositionCreatedNotification ==
  /\ CanNotify
  /\ notifyLog' \in Notified("positionCreated")
  /\ UNCHANGED <<mainVars, allocVars, startupVars, tickVars, inRangeVars,
                 overlapVars, initLog>>

\* lines 170-213
sendPositionWithdrawnNotification ==
  /\ CanNotify
  /\ notifyLog' \in Notified("positionWithdrawn")
  /\ UNCHANGED <<mainVars, allocVars, startupVars, tickVars, inRangeVars,
                 overlapVars, initLog>>

\* lines 219-246
sendBalanceNotification ==
  /\ CanNotify
  /\ notifyLog' \in Notified("balance")
  /\ UNCHANGED <<mainVars, allocVars, startupVars, tickVars, inRangeVars,
                 overlapVars, initLog>>

\* lines 252-323
sendTransactionNotification ==
  /\ CanNotify
  /\ notifyLog' \in Notified("transaction")
  /\ UNCHANGED <<mainVars, allocVars, startupVars, tickVars, inRangeVars,
                 overlapVars, initLog>>

\* lines 329-376
sendPriceUpdateNotification ==
  /\ CanNotify
  /\ notifyLog' \in Notified("priceUpdate")
  /\ UNCHANGED <<mainVars, allocVars, startupVars, tickVars, inRangeVars,
                 overlapVars, initLog>>

\* lines 383-419
sendErrorNotification ==
  /\ CanNotify
  /\ notifyLog' \in Notified("error")
  /\ UNCHANGED <<mainVars, allocVars, startupVars, tickVars, inRangeVars,
                 overlapVars, initLog>>

\* lines 424-440
sendShutdownNotification ==
  /\ CanNotify
  /\ notifyLog' \in Notified("shutdown")
  /\ UNCHANGED <<mainVars, allocVars, startupVars, tickVars, inRangeVars,
                 overlapVars, initLog>>

NotifyNext ==
  \/ sendStartupNotification
  \/ sendPositionCreatedNotification
  \/ sendPositionWithdrawnNotification
  \/ sendBalanceNotification
  \/ sendTransactionNotification
  \/ sendPriceUpdateNotification
  \/ sendErrorNotification
  \/ sendShutdownNotification

NotifySpec == NotifyInit /\ [][NotifyNext]_vars

(***************************************************************************)
(* The shutdown signal (index.ts 70-80).  The SIGINT handler awaits the    *)
(* shutdown notification, during which the cycle in flight goes on, and    *)
(* then calls process.exit(0), whatever the cycle is doing.                *)
(***************************************************************************)
\* lines 71-74: the handler starts and awaits sendShutdownNotification
SIGINT ==
  /\ startup = "running"
  /\ startup' = "shuttingDown"
  /\ UNCHANGED <<mainVars, allocVars, env, rangeResult, tickVars,
                 inRangeVars, notifyLog, overlapVars, initLog>>

\* line 79: process.exit(0)
ProcessExit ==
  /\ startup = "shuttingDown"
  /\ startup' = "exited"
  /\ UNCHANGED <<mainVars, allocVars, env, rangeResult, tickVars,
                 inRangeVars, notifyLog, overlapVars, initLog>>

\* the program runs until the process has exited
ProcessStep ==
  /\ startup # "exited"
  /\ Next

ShutdownNext ==
  \/ ProcessStep
  \/ SIGINT
  \/ ProcessExit

ShutdownSpec == Init /\ [][ShutdownNext]_vars

(***************************************************************************)
(* Overlapping triggers (index.ts 51-61, liquidity.ts 65-227).  The cron   *)
(* callback calls managePositions at every tick and awaits it; node-cron   *)
(* does not wait for the previous callback, and neither index.ts nor       *)
(* managePositions keeps a flag of a cycle in flight.  Each invocation has *)
(* its own locals; the chain and the wallet are shared.  Each call of      *)
(* closePosition and createPosition is one step here, with its outcome.    *)
(* The price is the cached one and does not move.                          *)
(***************************************************************************)
CycleIds == 1..MaxCycles

\* wallet balances with which a position can be opened
OverlapWallets == {b \in Balances : CanOpen(AvailableSol(b), b.usdc)}

OverlapInit ==
  /\ maxRetryAttempts = MaxRetries
  /\ priceRangePercent \in RangePercents
  /\ chainPrice \in Prices
  /\ chainPositions \in InitialChainPositions
  /\ Constructed
  /\ NoAllocCall
  /\ env = DefaultEnv
  /\ startup = "running"
  /\ rangeResult = NoRange
  /\ tickArgs = NoTickArgs
  /\ tickResult = NoTicks
  /\ inRangeArgs = NoInRangeArgs
  /\ inRangeResult = NoInRange
  /\ notifyLog = <<>>
  /\ cycles = [c \in CycleIds |-> NoCycle]
  /\ wallet \in OverlapWallets
  /\ initLog = <<>>

overlapRest ==
  <<configVars, chainPrice, managerVars, pc, op, cycleVars, retryVars,
    events, evAtDecision, lostConfirm, failures, allocVars, startupVars,
    tickVars, inRangeVars, notifyLog, initLog>>

\* a cycle in flight is required to have ended
CanFire_m(c) ==
  /\ cycles[c].pc = "waiting"
  /\ \A d \in CycleIds : cycles[d].pc \in {"waiting", "done"}

\* index.ts 53-56: the tick calls managePositions, whatever the earlier
\* invocations are doing (the invocations start in the order of the ticks)
CanFire(c) ==
  /\ cycles[c].pc = "waiting"
  /\ \A d \in CycleIds : d < c => cycles[d].pc # "waiting"

CronFires(c) ==
  /\ CanFire(c)
  /\ cycles' = [cycles EXCEPT ![c].pc = "listing"]
  /\ UNCHANGED <<overlapRest, chainPositions, closeCalls, openCalls, wallet>>

\* liquidity.ts 90: the positions the wallet has on chain now
OverlapLists(c) ==
  /\ cycles[c].pc = "listing"
  /\ cycles' = [cycles EXCEPT ![c].pc = "closing",
                              ![c].positions = ListFrom(chainPositions, 1),
                              ![c].idx = 1]
  /\ UNCHANGED <<overlapRest, chainPositions, closeCalls, openCalls, wallet>>

\* lines 97-98 and 133: the position is in range
OverlapKeeps(c) ==
  /\ cycles[c].pc = "closing"
  /\ cycles[c].idx <= Len(cycles[c].positions)
  /\ ~ShouldClose(cycles[c].positions[cycles[c].idx], chainPrice)
  /\ cycles' = [cycles EXCEPT ![c].idx = @ + 1]
  /\ UNCHANGED <<overlapRest, chainPositions, closeCalls, openCalls, wallet>>

\* lines 98-131: closePosition is called for an out-of-range position of
\* the list; it closes the position if the chain still has it open and
\* the submission confirms, and fails otherwise
OverlapCloses(c) ==
  /\ cycles[c].pc = "closing"
  /\ cycles[c].idx <= Len(cycles[c].positions)
  /\ ShouldClose(cycles[c].positions[cycles[c].idx], chainPrice)
  /\ LET id == cycles[c].positions[cycles[c].idx].positionId
     IN /\ closeCalls' = [closeCalls EXCEPT ![id] = @ + 1]
        /\ \E confirmed \in BOOLEAN :
             chainPositions' =
               IF confirmed /\ chainPositions[id].status = "open"
                 THEN [chainPositions EXCEPT ![id].status = "closed"]
                 ELSE chainPositions
  /\ cycles' = [cycles EXCEPT ![c].idx = @ + 1]
  /\ UNCHANGED <<overlapRest, openCalls, wallet>>

\* line 145: the balances the wallet has now
OverlapReadsBalances(c) ==
  /\ cycles[c].pc = "closing"
  /\ cycles[c].idx > Len(cycles[c].positions)
  /\ cycles' = [cycles EXCEPT ![c].pc = "sizing", ![c].balances = wallet]
  /\ UNCHANGED <<overlapRest, chainPositions, closeCalls, openCalls, wallet>>

\* the range and the amounts of lines 75 and 152-169 at the cached price
OverlapArguments(balances) ==
  LET range == getPriceRange(chainPrice, priceRangePercent)
  IN SizePosition(chainPrice, chainPrice, range.lowerBound, range.upperBound,
                  balances)

\* lines 154-205: createPosition is called with amounts sized from the
\* balances read; the position is opened if the submission confirms and
\* the wallet still holds the amounts
OverlapOpens(c) ==
  /\ cycles[c].pc = "sizing"
  /\ CanOpen(AvailableSol(cycles[c].balances), cycles[c].balances.usdc)
  /\ LET args == OverlapArguments(cycles[c].balances)
     IN /\ openCalls' = Append(openCalls, args)
        /\ \E confirmed \in BOOLEAN :
             IF /\ confirmed
                /\ UnusedIds # {}
                /\ args.solAmount <= wallet.sol
                /\ args.usdcAmount <= wallet.usdc
               THEN /\ chainPositions' =
                         [chainPositions EXCEPT
                            ![CHOOSE i \in UnusedIds :
                                \A j \in UnusedIds : i <= j] =
                              [status |-> "open",
                               lowerPrice |-> args.lowerPrice,
                               upperPrice |-> args.upperPrice]]
                    /\ wallet' = [sol |-> wallet.sol - args.solAmount,
                                  usdc |-> wallet.usdc - args.usdcAmount]
               ELSE UNCHANGED <<chainPositions, wallet>>
  /\ cycles' = [cycles EXCEPT ![c].pc = "done"]
  /\ UNCHANGED <<overlapRest, closeCalls>>

\* lines 213-217: insufficient funds
OverlapSkips(c) ==
  /\ cycles[c].pc = "sizing"
  /\ ~CanOpen(AvailableSol(cycles[c].balances), cycles[c].balances.usdc)
  /\ cycles' = [cycles EXCEPT ![c].pc = "done"]
  /\ UNCHANGED <<overlapRest, chainPositions, closeCalls, openCalls, wallet>>

OverlapNext ==
  \E c \in CycleIds :
    \/ CronFires(c)
    \/ OverlapLists(c)
    \/ OverlapKeeps(c)
    \/ OverlapCloses(c)
    \/ OverlapReadsBalances(c)
    \/ OverlapOpens(c)
    \/ OverlapSkips(c)

OverlapSpec == OverlapInit /\ [][OverlapNext]_vars

(***************************************************************************)
(* Cycles that keep coming (index.ts 51-61).  The cron callback starts a   *)
(* cycle at every tick, whatever the previous one did, and a cycle always  *)
(* goes on to its end.  One position is open above the range of the price  *)
(* the manager caches.  The listing and the wallet's balances are read     *)
(* successfully infinitely often, and so is each step of the close of      *)
(* that position: its instruction is built, its blockhash fetched, its     *)
(* transaction confirmed.                                                  *)
(***************************************************************************)
FairInit ==
  /\ maxRetryAttempts = 2
  /\ priceRangePercent \in RangePercents
  /\ chainPrice = 100
  /\ chainPositions =
       [i \in PositionIds |->
          IF i = 1 THEN [status |-> "open", lowerPrice |-> 105,
                         upperPrice |-> 115]
          ELSE NoPosition]
  /\ Constructed
  /\ NoPureCall

CycleStep == pc # "idle" /\ Next

getPositionsLists ==
  getPositions /\ positions' = ListFrom(chainPositions, 1)

ClosingOf(i) ==
  /\ op = "close"
  /\ idx \in 1..Len(positions)
  /\ positions[idx].positionId = i

FairSpec ==
  /\ FairInit
  /\ [][Next]_vars
  /\ WF_vars(CycleStep)
  /\ WF_vars(managePositions)
  /\ SF_vars(managePositionsInitializes)
  /\ SF_vars(TokenBalances)
  /\ SF_vars(getPositionsLists)
  /\ SF_vars(BuildInstruction /\ ClosingOf(1))
  /\ SF_vars(FetchBlockhash /\ ClosingOf(1))
  /\ SF_vars(SendConfirmed /\ ClosingOf(1))

(***************************************************************************)
(* LiquidityManager.initialize on its own (liquidity.ts 38-59) and the     *)
(* lazy call of managePositions (lines 65-68).  Each call is one step; its *)
(* entry in initLog has the value of isInitialized when the call was made, *)
(* the network calls it made (fetchPoolInfo is one), how it ended and      *)
(* whether the cycle of managePositions went on.  getCurrentPrice reads    *)
(* the pool information just fetched.                                      *)
(***************************************************************************)
InitEntry(called, flag, calls, ended, ran) ==
  [call |-> called, before |-> flag, network |-> calls, result |-> ended,
   cycle |-> ran]

InitializeInit ==
  /\ maxRetryAttempts = MaxRetries
  /\ priceRangePercent \in RangePercents
  /\ chainPrice \in Prices
  /\ chainPositions = [i \in PositionIds |-> NoPosition]
  /\ Constructed
  /\ NoPureCall

initializeRest ==
  <<configVars, chainVars, pc, op, cycleVars, retryVars, histVars,
    lostConfirm, failures, allocVars, startupVars, tickVars, inRangeVars,
    notifyLog, overlapVars>>

CanCall == Len(initLog) < MaxInitCalls

\* line 39: if (this.isInitialized) return
InitializeReturnsEarly(called) ==
  /\ isInitialized
  /\ initLog' = Append(initLog,
                       InitEntry(called, TRUE, 0, "returned",
                                 called = "managePositions"))
  /\ UNCHANGED managerVars

\* the flag is set before the service is initialized
InitializeThrows_m(called) ==
  /\ ~isInitialized
  /\ isInitialized' = TRUE
  /\ \/ UNCHANGED poolInfo
     \/ poolInfo' = chainPrice
  /\ initLog' = Append(initLog,
                       InitEntry(called, FALSE, 1, "thrown", FALSE))

\* lines 43-58: raydiumService.initialize() or the price read throws; the
\* error is logged and thrown again
InitializeThrows(called) ==
  /\ ~isInitialized
  /\ isInitialized' = FALSE
  /\ \/ UNCHANGED poolInfo
     \/ poolInfo' = chainPrice
  /\ initLog' = Append(initLog,
                       InitEntry(called, FALSE, 1, "thrown", FALSE))

\* lines 43-54: the service is initialized, the price is read, the flag set
InitializeSucceeds(called) ==
  /\ ~isInitialized
  /\ poolInfo' = chainPrice
  /\ isInitialized' = TRUE
  /\ initLog' = Append(initLog,
                       InitEntry(called, FALSE, 1, "returned",
                                 called = "managePositions"))

InitializeCalled ==
  /\ CanCall
  /\ \/ InitializeReturnsEarly("initialize")
     \/ InitializeThrows("initialize")
     \/ InitializeSucceeds("initialize")
  /\ UNCHANGED initializeRest

\* lines 65-68 of managePositions, then its cycle unless initialize threw
ManagePositionsCalled ==
  /\ CanCall
  /\ \/ InitializeReturnsEarly("managePositions")
     \/ InitializeThrows("managePositions")
     \/ InitializeSucceeds("managePositions")
  /\ UNCHANGED initializeRest

InitializeNext ==
  \/ InitializeCalled
  \/ ManagePositionsCalled

InitializeSpec == InitializeInit /\ [][InitializeNext]_vars

(***************************************************************************)
(* The generic retry helper (constants/index.ts 271-300).  fnOutcomes is   *)
(* what fn does at each call, a returned value or a thrown error; the      *)
(* result is how the helper ends, with the calls made and the delays       *)
(* slept.                                                                  *)
(***************************************************************************)
FnReturns(val) == [value |-> val, error |-> NoError]

FnThrows(err) == [value |-> 0, error |-> err]

\* the break is taken one failure later
RetryBreaks_m(att, retries) == att > retries

\* if (attempts >= retries) break, line 287
RetryBreaks(att, retries) == att >= retries

\* const delay = baseDelay * Math.pow(2, attempts), line 289
RetryDelay(base, att) == base * (2 ^ att)

RECURSIVE RetryLoop(_, _, _, _, _, _)
\* while (attempts < retries), lines 279-294, then the throw of line 296
RetryLoop(fnOutcomes, retries, base, att, lastErr, slept) ==
  IF att < retries
    THEN LET outcome == IF att + 1 <= Len(fnOutcomes)
                          THEN fnOutcomes[att + 1]
                          ELSE FnThrows("NoOutcome")
         IN IF outcome.error = NoError
              THEN [state |-> "returned", calls |-> att + 1,
                    sleeps |-> slept, value |-> outcome.value,
                    error |-> NoError]
              ELSE IF RetryBreaks(att + 1, retries)
                     THEN [state |-> "thrown", calls |-> att + 1,
                           sleeps |-> slept, value |-> 0,
                           error |-> outcome.error]
                     ELSE RetryLoop(fnOutcomes, retries, base, att + 1,
                                    outcome.error,
                                    Append(slept, RetryDelay(base, att + 1)))
    ELSE [state |-> "thrown", calls |-> att, sleeps |-> slept, value |-> 0,
          error |-> IF lastErr = NoError THEN "OperationFailed"
                    ELSE lastErr]

retry(fnOutcomes, retries, base) ==
  RetryLoop(fnOutcomes, retries, base, 0, NoError, <<>>)

(***************************************************************************)
(* Properties.                                                             *)
(***************************************************************************)
InRetry == pc \in {"fetch", "send", "sleep", "returned", "thrown"}

InCall == pc = "build" \/ InRetry

ExhaustedNow ==
  pc = "thrown" /\ thrown.from = "retry" /\ maxRetryAttempts >= 1

LogIndexes == 1..Len(attemptLog)

SentIndexes == {i \in LogIndexes : attemptLog[i].sent}

FetchFailedIndexes == {i \in LogIndexes : attemptLog[i].outcome = "fetchFailed"}

HasEvent(type, ctx, id) ==
  \E i \in 1..Len(events) : events[i] = Event(type, ctx, id)

\* C1: with maxAttempts n >= 1, the exhaustion error is raised after exactly
\* n failed attempts, each attempt whose blockhash fetch succeeded made one
\* send (n sends when only sends fail), and there is never an (n+1)-th
\* attempt.
C1_ExactlyMaxAttempts ==
  /\ (maxRetryAttempts >= 1 /\ InRetry) =>
       /\ Len(attemptLog) <= maxRetryAttempts
       /\ (pc \in {"fetch", "send", "sleep"} => attempts < maxRetryAttempts)
  /\ ExhaustedNow =>
       /\ attempts = maxRetryAttempts
       /\ Len(attemptLog) = maxRetryAttempts
       /\ \A i \in LogIndexes : attemptLog[i].outcome # "confirmed"
       /\ Cardinality(SentIndexes) =
            maxRetryAttempts - Cardinality(FetchFailedIndexes)

C1_Witness ==
  /\ ExhaustedNow
  /\ maxRetryAttempts = MaxRetries
  /\ Cardinality(SentIndexes) = MaxRetries

\* C2: every send uses the blockhash fetched in its own attempt, and each
\* attempt makes exactly one fetch before its send.
C2_FreshBlockhashPerAttempt ==
  /\ pc = "send" =>
       /\ recentBlockhash = attempts + 1
       /\ fetchCount = attempts + 1
  /\ \A i \in SentIndexes :
       /\ attemptLog[i].iter = i
       /\ attemptLog[i].blockhash = i

C2_Witness ==
  /\ Len(attemptLog) >= 2
  /\ attemptLog[1].sent
  /\ attemptLog[2].sent

\* C3: the k-th failure with k < maxAttempts is followed by a sleep of
\* baseDelay * 2^k before attempt k+1; the last failure is followed by no
\* sleep.
C3_ExponentialBackoff ==
  /\ \A k \in 1..Len(sleeps) : sleeps[k] = 1000 * (2 ^ k)
  /\ (InRetry /\ maxRetryAttempts >= 1) =>
       /\ (pc \in {"fetch", "send"} => Len(sleeps) = attempts)
       /\ (pc = "sleep" => Len(sleeps) = attempts
                             /\ attempts < maxRetryAttempts)
       /\ (ExhaustedNow => Len(sleeps) = maxRetryAttempts - 1)

C3_Witness ==
  /\ ExhaustedNow
  /\ Len(sleeps) = 2
  /\ sleeps[2] = 4000

\* C4: the call returns at the first confirmed attempt with that attempt's
\* signature; a confirmed attempt is the last attempt of the call.
C4_ReturnsAtFirstConfirmation ==
  /\ \A i \in LogIndexes :
       attemptLog[i].outcome = "confirmed" =>
         /\ i = Len(attemptLog)
         /\ pc = "returned"
         /\ signature = i
  /\ pc = "returned" =>
       /\ Len(attemptLog) >= 1
       /\ attemptLog[Len(attemptLog)].outcome = "confirmed"
       /\ Cardinality(SentIndexes) =
            Len(attemptLog) - Cardinality(FetchFailedIndexes)

C4_Witness ==
  /\ pc = "returned"
  /\ Len(attemptLog) = 3
  /\ attemptLog[1].sent
  /\ attemptLog[2].sent

\* C5: the exhaustion error carries the error of the last failed attempt.
C5_CarriesLastError ==
  ExhaustedNow => thrown.error = attemptLog[Len(attemptLog)].error

C5_Witness ==
  /\ ExhaustedNow
  /\ Len(attemptLog) >= 2
  /\ attemptLog[1].error # attemptLog[Len(attemptLog)].error

ListIndexes == 1..Len(positions)

\* the close of the j-th listed position has been called
CloseCalled(j) == j < idx \/ (j = idx /\ InCall /\ op = "close")

\* the loop has dealt with the j-th listed position
Processed(j) == j < idx

OutOfRange(j) == ~isPositionInRange(positions[j], poolInfo)

CloseFailed(j) == HasEvent("error", "close", positions[j].positionId)

Withdrawn(j) == HasEvent("positionWithdrawn", "close", positions[j].positionId)

LoopOver == idx = Len(positions) + 1

\* C6: in a cycle a listed position receives a close call if and only if
\* isPositionInRange is false for it, and then exactly one.
C6_CloseIffOutOfRange ==
  /\ \A j \in ListIndexes :
       closeCalls[positions[j].positionId] =
         IF idx >= j /\ OutOfRange(j) /\ CloseCalled(j) THEN 1 ELSE 0
  /\ \A j \in ListIndexes :
       (Processed(j) /\ OutOfRange(j)) => CloseCalled(j)
  /\ \A id \in PositionIds :
       (\A j \in ListIndexes : positions[j].positionId # id) =>
         closeCalls[id] = 0

C6_Witness ==
  /\ LoopOver
  /\ \E j, k \in ListIndexes :
       /\ ~OutOfRange(j)
       /\ closeCalls[positions[j].positionId] = 0
       /\ OutOfRange(k)
       /\ closeCalls[positions[k].positionId] = 1

\* C7: a failed close does not stop the loop: the cycle never ends inside
\* the closing loop, and once the loop is over every out-of-range position
\* has received its close call, whatever closes failed before it.
C7_PartialFailureIsolation ==
  /\ (pc = "idle" /\ idx >= 1) => LoopOver
  /\ (pc \in {"closedBalances", "updatedBalances", "newBalances"}) => LoopOver
  /\ \A j \in ListIndexes :
       CloseFailed(j) =>
         /\ cycleResult = "running" \/ LoopOver
         /\ LoopOver =>
              \A k \in ListIndexes :
                OutOfRange(k) => closeCalls[positions[k].positionId] = 1

C7_Witness ==
  /\ pc = "updatedBalances"
  /\ Len(positions) >= 2
  /\ CloseFailed(1)
  /\ OutOfRange(2)
  /\ closeCalls[positions[2].positionId] = 1

\* C8 as stated: after a failed close the position has an error
\* notification, no withdrawn event and is still open on chain; a withdrawn
\* event is emitted only for a position whose close confirmed.
C8_FailedCloseLeavesOpen ==
  \A j \in ListIndexes :
    LET id == positions[j].positionId
    IN /\ CloseFailed(j) =>
            /\ ~Withdrawn(j)
            /\ chainPositions[id].status = "open"
       /\ Withdrawn(j) => chainPositions[id].status = "closed"
       /\ (Processed(j) /\ OutOfRange(j)) => (CloseFailed(j) \/ Withdrawn(j))

\* C8 amended: as C8, but after a failed close the position is still open
\* on chain unless one of the failed attempts took effect with its
\* confirmation lost.
C8_FailedCloseReported ==
  \A j \in ListIndexes :
    LET id == positions[j].positionId
    IN /\ CloseFailed(j) =>
            /\ ~Withdrawn(j)
            /\ chainPositions[id].status = "open" \/ id \in lostConfirm
       /\ Withdrawn(j) =>
            /\ chainPositions[id].status = "closed"
            /\ id \notin lostConfirm \/ ~CloseFailed(j)
       /\ (Processed(j) /\ OutOfRange(j)) => (CloseFailed(j) \/ Withdrawn(j))
       /\ (CloseFailed(j) \/ Withdrawn(j)) => (Processed(j) /\ OutOfRange(j))

C8_Witness ==
  /\ LoopOver
  /\ Len(positions) >= 2
  /\ CloseFailed(1)
  /\ chainPositions[positions[1].positionId].status = "open"
  /\ Withdrawn(2)

\* C9: when the base balance less the reserve is below minBaseForPosition
\* or the quote balance below minQuoteForPosition, the cycle issues no open
\* call, emits no error event after the decision and completes normally.
C9_SkipOnInsufficientFunds ==
  (/\ updatedBalances # NoBalances
   /\ \/ updatedBalances.sol - 50 < 100
      \/ updatedBalances.usdc < 10000) =>
    /\ openCalls = <<>>
    /\ pc = "idle"
    /\ cycleResult = "completed"
    /\ \A i \in 1..Len(events) :
         i > evAtDecision => events[i].type # "error"

C9_Witness ==
  /\ updatedBalances # NoBalances
  /\ updatedBalances.sol = 149
  /\ updatedBalances.usdc = 50000
  /\ cycleResult = "completed"
  /\ HasEvent("error", "close", 1)

\* C10: every open call passes a base amount of at most the base balance
\* less the reserve and a quote amount of at most the quote balance, of the
\* balances read after the closes.
C10_AmountsWithinBalances ==
  /\ Len(openCalls) <= 1
  /\ \A i \in 1..Len(openCalls) :
       /\ updatedBalances # NoBalances
       /\ LoopOver
       /\ openCalls[i].solAmount >= 0
       /\ openCalls[i].usdcAmount >= 0
       /\ openCalls[i].solAmount <= updatedBalances.sol - 50
       /\ openCalls[i].usdcAmount <= updatedBalances.usdc

C10_Witness ==
  /\ Len(openCalls) = 1
  /\ openCalls[1].solAmount = updatedBalances.sol - 50
  /\ openCalls[1].usdcAmount < updatedBalances.usdc
  /\ openCalls[1].usdcAmount > 0

\* the value the cycle may deploy: totalDeployableValue of line 158 for the
\* balances read at line 145
DeployableValue == (updatedBalances.sol - 50) * currentPrice
                     + updatedBalances.usdc

OpenValue(i) == openCalls[i].solAmount * currentPrice + openCalls[i].usdcAmount

\* C11: for every open call, baseAmount * currentPrice + quoteAmount of the
\* amounts passed is at most 98% of the deployable value, and strictly less
\* than the deployable value when that value is positive.
C11_SafetyHaircut ==
  \A i \in 1..Len(openCalls) :
    /\ OpenValue(i) * 100 <= 98 * DeployableValue
    /\ DeployableValue > 0 => OpenValue(i) < DeployableValue

\* an open call that neither clamp of lines 168-169 cuts: the haircut alone
\* keeps the value under the deployable value
C11_Witness ==
  /\ Len(openCalls) = 1
  /\ openCalls[1].solAmount < updatedBalances.sol - 50
  /\ openCalls[1].usdcAmount < updatedBalances.usdc
  /\ OpenValue(1) * 100 > 97 * DeployableValue

\* a cycle has started: managePositions was entered
CycleStarted == cycleResult # "none"

C13_PriceReadIsFresh ==
  cycleResult = "running" =>
    /\ currentPrice = chainPrice
    /\ lowerBound = getPriceRange(chainPrice, priceRangePercent).lowerBound
    /\ upperBound = getPriceRange(chainPrice, priceRangePercent).upperBound

(***************************************************************************)
(* Properties of the allocation functions, under AllocSpec.                *)
(***************************************************************************)
ValidRange == allocArgs.lowerPrice < allocArgs.upperPrice

InsideRange ==
  /\ allocArgs.lowerPrice < allocArgs.currentPrice
  /\ allocArgs.currentPrice < allocArgs.upperPrice

AllocValue(amounts) ==
  amounts.solAmount * allocArgs.currentPrice + amounts.usdcAmount

\* C14: with currentPrice <= lowerPrice (of a valid range) both
\* getOptimalAmounts and calculateOptimalAmounts, after its thresholds,
\* return baseAmount = 0, for every totalValue >= 0.
C14_NoBaseBelowRange ==
  (ValidRange /\ allocArgs.currentPrice <= allocArgs.lowerPrice) =>
    /\ optimalAmounts.state = "returned" => optimalAmounts.solAmount = 0
    /\ calculatedAmounts.state = "returned" =>
         calculatedAmounts.solAmount = 0

\* C15: with currentPrice >= upperPrice (of a valid range) both
\* getOptimalAmounts and calculateOptimalAmounts, after its thresholds,
\* return quoteAmount = 0, for every totalValue >= 0.
C15_NoQuoteAboveRange ==
  (ValidRange /\ allocArgs.currentPrice >= allocArgs.upperPrice) =>
    /\ optimalAmounts.state = "returned" => optimalAmounts.usdcAmount = 0
    /\ calculatedAmounts.state = "returned" =>
         calculatedAmounts.usdcAmount = 0

\* C16: for a valid range, a positive price and totalValue >= 0 the
\* amounts of both functions are worth at most totalValue at the current
\* price: in each branch, before and after the thresholds of
\* calculateOptimalAmounts.
C16_NoOverAllocation ==
  (ValidRange /\ allocArgs.currentPrice > 0) =>
    /\ optimalAmounts.state = "returned" =>
         /\ optimalAmounts.solAmount >= 0
         /\ optimalAmounts.usdcAmount >= 0
         /\ AllocValue(optimalAmounts) <= allocArgs.totalValue
    /\ calculatedAmounts.state \in {"allocated", "returned"} =>
         /\ calculatedAmounts.solAmount >= 0
         /\ calculatedAmounts.usdcAmount >= 0
         /\ AllocValue(calculatedAmounts) <= allocArgs.totalValue

\* inside the range: getOptimalAmounts returned two positive legs worth the
\* whole value but for rounding, and a threshold of calculateOptimalAmounts
\* moved the quote leg into base
C16_Witness ==
  /\ InsideRange
  /\ optimalAmounts.state = "returned"
  /\ optimalAmounts.solAmount > 0
  /\ optimalAmounts.usdcAmount > 0
  /\ AllocValue(optimalAmounts) > allocArgs.totalValue - allocArgs.currentPrice
  /\ calculatedAmounts.state = "returned"
  /\ calculatedAmounts.usdcAmount = 0
  /\ calculatedAmounts.solAmount >= MIN_SOL_AMOUNT

\* the split of the claim: weight = (su - s) / (su - sl) in thousandths,
\* quote = totalValue * weight, base = (totalValue / price) * (1 - weight)
WeightedSplit ==
  LET su == Sqrt(allocArgs.upperPrice)
      sl == Sqrt(allocArgs.lowerPrice)
      sc == Sqrt(allocArgs.currentPrice)
      weight == ((su - sc) * 1000) \div (su - sl)
  IN [solAmount |-> (allocArgs.totalValue * (1000 - weight))
                      \div (allocArgs.currentPrice * 1000),
      usdcAmount |-> (allocArgs.totalValue * weight) \div 1000]

\* C17: for lowerPrice < currentPrice < upperPrice getOptimalAmounts and
\* calculateOptimalAmounts (before its thresholds) both return the split
\* quote = totalValue * weight, base = (totalValue / currentPrice) *
\* (1 - weight) with weight = (su - s) / (su - sl).
C17_SameWeightedSplit ==
  InsideRange =>
    /\ optimalAmounts.state = "returned" =>
         /\ optimalAmounts.solAmount = WeightedSplit.solAmount
         /\ optimalAmounts.usdcAmount = WeightedSplit.usdcAmount
    /\ calculatedAmounts.state = "allocated" =>
         /\ calculatedAmounts.solAmount = WeightedSplit.solAmount
         /\ calculatedAmounts.usdcAmount = WeightedSplit.usdcAmount

\* C18: every amount calculateOptimalAmounts returns is either 0 or at
\* least its minimum (MIN_SOL_AMOUNT, MIN_USDC_AMOUNT).
C18_NoDustReturned ==
  (ValidRange /\ calculatedAmounts.state = "returned") =>
    /\ \/ calculatedAmounts.solAmount = 0
       \/ calculatedAmounts.solAmount >= MIN_SOL_AMOUNT
    /\ \/ calculatedAmounts.usdcAmount = 0
       \/ calculatedAmounts.usdcAmount >= MIN_USDC_AMOUNT

\* C19: each amount managePositions passes to createPosition is either 0
\* or at least its dust threshold.
C19_NoDustLegOpened ==
  sizeResult.state = "opened" =>
    /\ \/ sizeResult.solAmount = 0
       \/ sizeResult.solAmount >= MIN_SOL_AMOUNT
    /\ \/ sizeResult.usdcAmount = 0
       \/ sizeResult.usdcAmount >= MIN_USDC_AMOUNT * UsdcScale

\* C20: with upperPrice <= lowerPrice the allocation fails with
\* InvalidRange and returns no amounts.
C20_InvalidRangeFails ==
  allocArgs.upperPrice <= allocArgs.lowerPrice =>
    /\ optimalAmounts.state \in {"none", "InvalidRange"}
    /\ calculatedAmounts.state \in {"none", "InvalidRange"}

(***************************************************************************)
(* Properties of startup, under StartupSpec.                               *)
(***************************************************************************)
\* C21: a width percent <= 0 is rejected at startup: the process never
\* runs and no price range is ever computed with priceRangePercent <= 0.
C21_NonPositiveWidthRejected ==
  /\ startup = "running" => env.priceRangePercent > 0
  /\ rangeResult.state = "returned" => env.priceRangePercent > 0
  /\ (env.priceRangePercent <= 0 /\ startup # "loading") =>
       /\ startup = "exited"
       /\ rangeResult.state = "none"

\* a width of 0 in an otherwise valid configuration: the process exited
C21_Witness ==
  /\ env.priceRangePercent = 0
  /\ ~MinSolBalanceInvalid(env.minSolBalance)
  /\ ~CheckIntervalInvalid(env.checkIntervalMinutes)
  /\ startup = "exited"

\* C22: for every positive price and every width w accepted at startup,
\* getPriceRange returns lowerBound = price * (1 - w/100) and upperBound =
\* price * (1 + w/100) (to the unit of the model) with
\* 0 < lowerBound < upperBound.
C22_RangePositiveAndOrdered ==
  rangeResult.state = "returned" =>
    /\ rangeResult.lowerBound * 100 <=
         rangeResult.price * (100 - env.priceRangePercent)
    /\ rangeResult.lowerBound * 100 + 100 >
         rangeResult.price * (100 - env.priceRangePercent)
    /\ rangeResult.upperBound * 100 <=
         rangeResult.price * (100 + env.priceRangePercent)
    /\ rangeResult.upperBound * 100 + 100 >
         rangeResult.price * (100 + env.priceRangePercent)
    /\ 0 < rangeResult.lowerBound
    /\ rangeResult.lowerBound < rangeResult.upperBound

\* C30: every configuration that passes validation has
\* maxRetryAttempts >= 1.
C30_AtLeastOneAttempt ==
  startup = "running" => env.maxRetryAttempts >= 1

(***************************************************************************)
(* Properties of the tick rounding, under TickSpec.                        *)
(***************************************************************************)
\* C23: the rounding only widens: the lower tick is the largest multiple
\* of the spacing that is <= the raw lower tick, the upper tick the
\* smallest multiple that is >= the raw upper tick, also for negative
\* ticks; an aligned raw tick is unchanged; rounding a rounded tick again
\* changes nothing.
C23_RoundingOnlyWidens ==
  /\ tickResult.state # "none" =>
       /\ tickResult.firstLower % tickArgs.tickSpacing = 0
       /\ tickResult.firstUpper % tickArgs.tickSpacing = 0
       /\ tickResult.firstLower <= tickArgs.lowerRaw
       /\ tickArgs.lowerRaw < tickResult.firstLower + tickArgs.tickSpacing
       /\ tickResult.firstUpper - tickArgs.tickSpacing < tickArgs.upperRaw
       /\ tickArgs.upperRaw <= tickResult.firstUpper
       /\ tickArgs.lowerRaw % tickArgs.tickSpacing = 0 =>
            tickResult.firstLower = tickArgs.lowerRaw
       /\ tickArgs.upperRaw % tickArgs.tickSpacing = 0 =>
            tickResult.firstUpper = tickArgs.upperRaw
  /\ tickResult.state = "aligned" =>
       /\ tickResult.lowerTickIndex = tickResult.firstLower
       /\ tickResult.upperTickIndex = tickResult.firstUpper
  /\ tickResult.state = "realigned" =>
       /\ tickResult.lowerTickIndex = tickResult.firstLower
       /\ tickResult.upperTickIndex = tickResult.firstUpper

\* negative raw ticks off the grid, rounded twice
C23_Witness ==
  /\ tickArgs = [lowerRaw |-> -21, upperRaw |-> -3, tickSpacing |-> 10]
  /\ tickResult.state = "realigned"
  /\ tickResult.lowerTickIndex = -30
  /\ tickResult.upperTickIndex = 0

\* C24: every tick range passed to the open-position instruction has both
\* ticks multiples of the spacing and lowerTick < upperTick strictly, also
\* when both bounds map to the same raw tick.
C24_StrictTickRange ==
  tickResult.state = "aligned" =>
    /\ tickResult.lowerTickIndex % tickArgs.tickSpacing = 0
    /\ tickResult.upperTickIndex % tickArgs.tickSpacing = 0
    /\ tickResult.lowerTickIndex < tickResult.upperTickIndex

(***************************************************************************)
(* Properties of the range test, under InRangeSpec.                        *)
(***************************************************************************)
\* C25: isPositionInRange is true exactly when lowerPrice <= price <=
\* upperPrice; it is true at both boundaries, so a position whose boundary
\* equals the price is not closed.
C25_InRangeIsInclusive ==
  /\ inRangeResult.state # "none" =>
       (inRangeResult.inRange <=>
          /\ inRangeArgs.lowerPrice <= inRangeArgs.price
          /\ inRangeArgs.price <= inRangeArgs.upperPrice)
  /\ (/\ inRangeResult.state = "decided"
      /\ \/ inRangeArgs.price = inRangeArgs.lowerPrice
         \/ inRangeArgs.price = inRangeArgs.upperPrice
      /\ inRangeArgs.lowerPrice <= inRangeArgs.upperPrice) =>
       ~inRangeResult.close

\* the price is on the upper boundary of a position, which is kept
C25_Witness ==
  /\ inRangeArgs = [lowerPrice |-> 100, upperPrice |-> 110, price |-> 110]
  /\ inRangeResult = [state |-> "decided", inRange |-> TRUE,
                      close |-> FALSE]

(***************************************************************************)
(* Properties of the cycle's failure handling, under Spec.                 *)
(***************************************************************************)
\* C26: when the position query fails, getPositions yields the empty list:
\* the step never ends the cycle and emits no event; with the empty list
\* the cycle makes no close call, emits no error event and goes on to the
\* balance re-query and the open decision.
C26_FailedQueryIsEmptyList ==
  [][/\ pc = "getPositions" =>
          /\ pc' = "closing"
          /\ positions' \in {ListFrom(chainPositions, 1), <<>>}
          /\ UNCHANGED <<events, closeCalls, cycleResult>>
     /\ (pc = "closing" /\ positions = <<>>) =>
          /\ pc' = "updatedBalances"
          /\ UNCHANGED <<events, closeCalls, cycleResult>>]_vars

\* the wallet has an open position, the list is empty (the query failed)
\* and the cycle is at the balance re-query
C26_Witness ==
  /\ pc = "updatedBalances"
  /\ positions = <<>>
  /\ chainPositions[1].status = "open"
  /\ \A i \in PositionIds : closeCalls[i] = 0
  /\ ~HasEvent("error", "cycle", 0)

C29_OpenErrorIffNotConfirmed ==
  /\ HasEvent("error", "open", 0) => ~HasEvent("positionCreated", "open", 0)
  /\ (pc = "idle" /\ HasEvent("positionCreated", "open", 0)) =>
       /\ HasEvent("balance", "open", 0)
       /\ ~HasEvent("error", "open", 0)

\* C32: the submitter does not detect a landed-but-unconfirmed
\* transaction: after an attempt that was not confirmed, landed or not,
\* the loop goes on to another attempt while attempts remain, so one
\* submit call can take effect on chain more than once; only the chain
\* stops the duplicate (a closed position cannot be closed again).
C32_LandedAttemptIsRetried ==
  InRetry =>
    /\ (/\ Len(attemptLog) >= 1
        /\ attemptLog[Len(attemptLog)].outcome # "confirmed"
        /\ Len(attemptLog) < maxRetryAttempts) =>
         pc \in {"sleep", "fetch", "send"}
    /\ landed <= Cardinality(SentIndexes)
    /\ op = "close" => landed <= 1

\* one createPosition call has opened two positions
C32_Witness ==
  /\ InRetry
  /\ op = "open"
  /\ landed = 2
  /\ Len(openCalls) = 1

\* C34: within one cycle the steps occur in the order price read,
\* listing, close calls, balance re-query, open call: every close call of
\* the cycle has reached its final outcome before the balance snapshot
\* used for sizing is read, the open call is sized from that snapshot, and
\* no close is called or in flight once the open call is issued.
C34_StepsInOrder ==
  /\ (pc \in {"getPositions", "closing", "closedBalances"} \/
        (InCall /\ op = "close")) =>
       /\ currentPrice # 0
       /\ updatedBalances = NoBalances
       /\ openCalls = <<>>
  /\ (pc \in {"updatedBalances", "newBalances"} \/ (InCall /\ op = "open")) =>
       idx > Len(positions)
  /\ updatedBalances # NoBalances => idx > Len(positions)
  /\ openCalls # <<>> =>
       /\ Len(openCalls) = 1
       /\ updatedBalances # NoBalances
  /\ (pc = "build" /\ op = "open") =>
       openCalls = <<OpenArguments(updatedBalances)>>

\* a close of the cycle has landed and the open call, sized from the
\* snapshot read after it, is in flight
C34_Witness ==
  /\ InCall
  /\ op = "open"
  /\ \E i \in PositionIds :
       closeCalls[i] = 1 /\ chainPositions[i].status = "closed"
  /\ openCalls = <<OpenArguments(updatedBalances)>>

\* the steps one call of closePosition or createPosition can still take
CallRank ==
  CASE pc = "build" -> 3 * maxRetryAttempts + 2
    [] pc = "sleep" -> 3 * (maxRetryAttempts - attempts) + 2
    [] pc = "fetch" -> 3 * (maxRetryAttempts - attempts) + 1
    [] pc = "send" -> 3 * (maxRetryAttempts - attempts)
    [] OTHER -> 0

\* an upper bound of the steps the cycle can still take
CycleRank ==
  LET call == 3 * maxRetryAttempts + 5
      tail == 3 * maxRetryAttempts + 8
  IN CASE pc = "tokenBalances" -> tail + MaxPositions * call + 2
       [] pc = "getPositions" -> tail + MaxPositions * call + 1
       [] pc = "closing" -> tail + (Len(positions) - idx + 1) * call
       [] InCall /\ op = "close" ->
            tail + (Len(positions) - idx) * call + 1 + CallRank
       [] pc = "closedBalances" -> tail - 1
       [] pc = "updatedBalances" -> tail - 2
       [] InCall /\ op = "open" -> 2 + CallRank
       [] pc = "newBalances" -> 1
       [] OTHER -> 0

\* the positions of the list that the cycle's price leaves out of range
OutOfRangeIds ==
  {positions[j].positionId :
     j \in {k \in 1..Len(positions) : ShouldClose(positions[k], poolInfo)}}

\* one step for every place of a cycle in flight
CycleProgress ==
  \/ TokenBalances \/ getPositions \/ KeepPosition \/ closePosition
  \/ ClosingDone \/ ClosedBalances \/ BuildInstruction \/ FetchBlockhash
  \/ SendRejected \/ BackoffSleep \/ CloseReturned \/ CloseThrown
  \/ UpdatedBalancesFails \/ OpenReturned \/ OpenThrown \/ NewBalances

\* what holds of a cycle in flight: it can take a step, and its calls
\* and send attempts are bounded
InFlightBounds ==
  /\ pc # "idle" => ENABLED CycleProgress
  /\ CycleRank >= 0
  /\ Cardinality(SentIndexes) <= maxRetryAttempts
  /\ \A i \in PositionIds :
       /\ closeCalls[i] <= 1
       /\ closeCalls[i] = 1 => i \in OutOfRangeIds
  /\ Len(openCalls) <= 1

\* C35: every cycle terminates and returns to idle: a cycle in flight can
\* always take a step, every step of it lowers a bound that is never
\* negative, one call makes at most maxRetryAttempts send attempts, and
\* the cycle makes at most one close call per out-of-range position of
\* its list and one open call, hence at most (out-of-range positions + 1)
\* * maxRetryAttempts send attempts.
C35_CycleTerminates ==
  [][/\ (pc # "idle" /\ pc' # "idle") => CycleRank' < CycleRank
     /\ InFlightBounds']_vars

\* a cycle that called close for an out-of-range position has used up
\* every attempt of its open call and is about to end
C35_Witness ==
  /\ pc = "thrown"
  /\ op = "open"
  /\ maxRetryAttempts = MaxRetries
  /\ Cardinality(SentIndexes) = maxRetryAttempts
  /\ \E i \in PositionIds : closeCalls[i] = 1

OpenOnChain == {i \in PositionIds : chainPositions[i].status = "open"}

\* C38: a cycle makes at most one open call, and it makes one exactly when
\* the balances read at line 145 meet the minimums, whatever positions the
\* wallet holds and whether or not one was closed.
C38_OpenDependsOnBalances ==
  /\ Len(openCalls) <= 1
  /\ updatedBalances # NoBalances =>
       (Len(openCalls) = 1 <=>
          CanOpen(AvailableSol(updatedBalances), updatedBalances.usdc))
  /\ updatedBalances = NoBalances => openCalls = <<>>

\* the open call was made in a cycle that kept an in-range position and
\* closed none, and the wallet now holds two open positions
C38_Witness ==
  /\ Len(openCalls) = 1
  /\ ~positionClosed
  /\ closeCalls = [i \in PositionIds |-> 0]
  /\ \E k \in 1..Len(positions) :
       /\ ~ShouldClose(positions[k], poolInfo)
       /\ chainPositions[positions[k].positionId].status = "open"
  /\ Cardinality(OpenOnChain) >= 2

\* what each attempt of the call of sendTransactionWithRetry did, as the
\* outcomes of an fn: the signature returned or the error thrown
AttemptOutcomes ==
  [k \in LogIndexes |->
     IF attemptLog[k].outcome = "confirmed"
       THEN FnReturns(attemptLog[k].iter)
       ELSE FnThrows(attemptLog[k].error)]

RetryEnded == pc = "returned" \/ ExhaustedNow

RetryResult == retry(AttemptOutcomes, maxRetryAttempts, baseDelay)

\* C39: for n >= 1 and every sequence of outcomes, retry makes the calls
\* and sleeps the delays that sendTransactionWithRetry makes: at most n
\* calls, none after the first success, whose value is returned, a sleep
\* of baseDelay * 2^k after the k-th failure for k < n only, and after n
\* failures the last error thrown.
C39_RetrySameProtocol ==
  (RetryEnded /\ maxRetryAttempts >= 1) =>
    LET result == RetryResult
    IN /\ result.calls = Len(attemptLog)
       /\ result.calls <= maxRetryAttempts
       /\ result.sleeps = sleeps
       /\ Len(result.sleeps) =
            Min(Cardinality({k \in LogIndexes :
                              attemptLog[k].error # NoError}),
                maxRetryAttempts - 1)
       /\ \A k \in 1..Len(result.sleeps) :
            result.sleeps[k] = baseDelay * (2 ^ k)
       /\ result.state = "returned" <=> pc = "returned"
       /\ pc = "returned" =>
            /\ result.value = signature
            /\ \A k \in 1..(result.calls - 1) :
                 attemptLog[k].error # NoError
       /\ pc = "thrown" =>
            /\ result.calls = maxRetryAttempts
            /\ result.error = lastError
            /\ result.error = attemptLog[Len(attemptLog)].error

\* a call with three attempts allowed returned at the third, after two
\* failures and the two delays
C39_Witness ==
  /\ pc = "returned"
  /\ maxRetryAttempts = 3
  /\ Len(attemptLog) = 3
  /\ RetryResult.state = "returned"
  /\ RetryResult.calls = 3
  /\ RetryResult.sleeps = <<2 * baseDelay, 4 * baseDelay>>
  /\ sleeps = <<2 * baseDelay, 4 * baseDelay>>

FailureIndexes == 1..Len(failures)

HasFailure(failed) == \E k \in FailureIndexes : failures[k].op = failed

\* every failing path of the cycle has left its record
FailuresRecorded ==
  /\ cycleResult = "propagated" => HasFailure("price")
  /\ cycleResult = "caught" => HasFailure("balances")
  /\ (pc = "closing" /\ Len(positions) < Len(ListFrom(chainPositions, 1)))
       => HasFailure("positions")
  /\ \A i \in PositionIds :
       HasEvent("error", "close", i) => HasFailure("close")
  /\ HasEvent("error", "open", 0)
       => HasFailure("open") \/ HasFailure("balances")

\* C37: for every close, open, position query, balance query or price read
\* that failed in the cycle, a log entry or an error notification was
\* emitted: no failure is without both.
C37_NoSilentFailure ==
  /\ FailuresRecorded
  /\ \A k \in FailureIndexes : failures[k].log \/ failures[k].notification

\* a cycle has ended in which the listing failed, for which there is a log
\* entry and no notification, and in which the open failed
C37_Witness ==
  /\ pc = "idle"
  /\ cycleResult = "completed"
  /\ \E k \in FailureIndexes :
       failures[k] = Failure("positions", TRUE, FALSE)
  /\ HasFailure("open")
  /\ \E i \in PositionIds : chainPositions[i].status = "open"

(***************************************************************************)
(* Properties of the shutdown, under ShutdownSpec.                         *)
(***************************************************************************)
\* C31: the process never exits while a sent attempt's outcome is still
\* unknown: a transaction already sent reaches its confirmation or timeout
\* outcome before the process exits.
C31_SentAttemptFinishes ==
  startup = "exited" => pc # "send"

(***************************************************************************)
(* Properties of overlapping triggers, under OverlapSpec.                  *)
(***************************************************************************)
\* C33: cycles are not guarded against overlap: a trigger starts its cycle
\* whether or not an earlier cycle is still in flight, and every
\* invocation decides from its own listing and its own balance snapshot,
\* so two cycles can both call close for the same position or both call
\* open from the same balances; the calls of a position never exceed the
\* number of cycles.
C33_NoOverlapGuard ==
  /\ \A c \in CycleIds :
       (/\ cycles[c].pc = "waiting"
        /\ \A d \in CycleIds : d < c => cycles[d].pc # "waiting") =>
         ENABLED CronFires(c)
  /\ \A i \in PositionIds : closeCalls[i] <= MaxCycles
  /\ Len(openCalls) <= MaxCycles

\* two cycles have called close for position 1; the first has opened a
\* position, and the second is about to size its open from the balances
\* the first one read, which the wallet no longer has
C33_Witness ==
  /\ closeCalls[1] = 2
  /\ cycles[1].pc = "done"
  /\ Len(openCalls) = 1
  /\ wallet # cycles[1].balances
  /\ cycles[2].pc = "sizing"
  /\ cycles[2].balances = cycles[1].balances

(***************************************************************************)
(* Properties of cycles that keep coming, under FairSpec.                  *)
(***************************************************************************)
\* C36: a position whose close failed in a cycle and which is still open
\* is closed in a later cycle: the next cycles list it and call its close
\* again, whatever the earlier cycle reported.
C36_FailedCloseIsRetried ==
  (HasEvent("error", "close", 1) /\ chainPositions[1].status = "open")
    ~> (chainPositions[1].status = "closed")

\* a cycle has ended whose close of the position was thrown, and the position
\* is still open when the next tick comes
C36_Witness ==
  /\ pc = "idle"
  /\ isInitialized
  /\ HasEvent("error", "close", 1)
  /\ closeCalls[1] = 1
  /\ chainPositions[1].status = "open"

(***************************************************************************)
(* Properties of initialize, under InitializeSpec.                         *)
(***************************************************************************)
InitIndexes == 1..Len(initLog)

InitSucceeded(k) == ~initLog[k].before /\ initLog[k].result = "returned"

\* C40: isInitialized is true exactly when a call fetched the pool
\* information, read the price and returned; a call made with the flag set
\* makes no network call; after a call that threw the flag is false, and
\* the next call, that of managePositions included, initializes again
\* before any cycle runs.
C40_InitializeMarksSuccess ==
  /\ isInitialized <=> \E k \in InitIndexes : InitSucceeded(k)
  /\ isInitialized => poolInfo \in Prices
  /\ \A k \in InitIndexes :
       /\ initLog[k].before => initLog[k].network = 0
       /\ initLog[k].before <=> \E j \in 1..(k - 1) : InitSucceeded(j)
       /\ ~initLog[k].before => initLog[k].network >= 1
       /\ initLog[k].cycle =>
            /\ initLog[k].call = "managePositions"
            /\ initLog[k].result = "returned"

\* initialize threw, the next trigger's managePositions initialized and ran
\* its cycle, and a further initialize call returned at once
C40_Witness ==
  /\ Len(initLog) = 3
  /\ initLog[1] = InitEntry("initialize", FALSE, 1, "thrown", FALSE)
  /\ initLog[2] = InitEntry("managePositions", FALSE, 1, "returned", TRUE)
  /\ initLog[3] = InitEntry("initialize", TRUE, 0, "returned", FALSE)
  /\ isInitialized
====
